---------------------------- MODULE Spec2Model ----------------------------
(***************************************************************************)
(* A model of uclicious, the Rust wrapper around the libucl configuration  *)
(* engine: owning handles (Object) and views (ObjectRef) over the engine's *)
(* reference-counted nodes, the parser session, the iterators, the typed   *)
(* accessors and the Priority conversions.                                 *)
(*                                                                         *)
(* The engine itself (libucl) is an external collaborator; its operations  *)
(* (the ucl_* operators below) are modelled to the interface contract the  *)
(* wrapper relies on.  Everything else is translated from the Rust code.   *)
(*                                                                         *)
(* Floating point payloads (float and time nodes) are kept as a fixed      *)
(* point number of tenths in the integer field iv.                         *)
(***************************************************************************)
EXTENDS Integers, Sequences, FiniteSets, TLC

VARIABLES
    heap,      \* the engine's nodes: node id -> node
    nalloc,    \* number of node ids handed out so far (ids are never reused)
    parser,    \* the Parser session (raw/parser.rs)
    objects,   \* the live owning handles (Object), by slot
    views,     \* the live non-owning handles (ObjectRef), by slot
    iters,     \* the live iterators (Iter / IntoIter), by slot
    obs,       \* what the last call returned to the caller
    made,      \* number of nodes' trees made through Object::from and deep_copy
    conv,      \* the Priority conversion under way (raw/priority.rs)
    hooks,     \* the variable handlers, the process environment and the calls
               \* the engine made to the installed handler (variable_handlers/)
    cursors    \* the engine's memory for the cursor of each iterator slot:
               \* "free", "live", or "corrupt" once freed twice

vars == <<heap, nalloc, parser, objects, views, iters, obs, made, conv, hooks, cursors>>

---------------------------------------------------------------------------
(* Bounds of the model *)

MaxNodes == 9
MaxObjects == 2
MaxViews == 1
MaxIters == 1
MaxChunks == 2
MaxMade == 3
MaxOut == 7

NULL == 0
NodeIds == 1..MaxNodes

---------------------------------------------------------------------------
(* The engine's node: ucl_object_t, as far as the wrapper observes it *)

ScalarKinds == {"UCL_INT", "UCL_FLOAT", "UCL_STRING", "UCL_BOOLEAN", "UCL_TIME", "UCL_NULL"}
ContainerKinds == {"UCL_OBJECT", "UCL_ARRAY"}
Kinds == ScalarKinds \cup ContainerKinds

\* st: "unused" (never allocated), "live", "freed", "corrupt" (a count was
\* touched after the node had been freed).  A freed node keeps its stale
\* content: the memory is released, not scrubbed.
\* wide: the bit pattern of an integer payload too large for iv (<<>> when iv
\* holds the payload).  orig: the node this one was copied from, if any.
FreeSlot ==
    [st |-> "unused", type |-> "UCL_NULL", iv |-> 0, sv |-> "", hk |-> FALSE,
     key |-> "", prio |-> 0, ref |-> 0, elems |-> <<>>, next |-> NULL,
     wide |-> <<>>, orig |-> NULL]

ucl_object_new_full(type, priority) ==
    [FreeSlot EXCEPT !.st = "live", !.type = type, !.prio = priority, !.ref = 1]

RECURSIVE ChainOf(_, _)
\* a node and the same-key siblings chained after it (the implicit array)
ChainOf(hp, n) ==
    IF n = NULL THEN <<>> ELSE <<n>> \o ChainOf(hp, hp[n].next)

RECURSIVE FlattenChains(_, _)
FlattenChains(hp, es) ==
    IF es = <<>> THEN <<>>
    ELSE ChainOf(hp, Head(es)) \o FlattenChains(hp, Tail(es))

\* the nodes a container holds one reference to each
Held(hp, n) ==
    IF hp[n].type \in ContainerKinds THEN FlattenChains(hp, hp[n].elems) ELSE <<>>

SeqToSet(s) == {s[i] : i \in 1..Len(s)}

ucl_object_type(hp, ptr) == hp[ptr].type

ucl_object_ref(hp, ptr) ==
    IF ptr = NULL THEN hp
    ELSE IF hp[ptr].st = "live" THEN [hp EXCEPT ![ptr].ref = @ + 1]
    ELSE [hp EXCEPT ![ptr].st = "corrupt"]

RECURSIVE UnrefAll(_, _)
\* drop one reference of every node of `work`; a node whose count reaches
\* zero is freed and releases the nodes it holds
UnrefAll(hp, work) ==
    IF work = <<>> THEN hp
    ELSE LET n == Head(work) IN
         IF hp[n].st # "live"
         THEN UnrefAll([hp EXCEPT ![n].st = "corrupt"], Tail(work))
         ELSE IF hp[n].ref - 1 <= 0
         THEN UnrefAll([hp EXCEPT ![n].ref = 0, ![n].st = "freed"],
                       Tail(work) \o Held(hp, n))
         ELSE UnrefAll([hp EXCEPT ![n].ref = @ - 1], Tail(work))

ucl_object_unref(hp, ptr) == IF ptr = NULL THEN hp ELSE UnrefAll(hp, <<ptr>>)

RECURSIVE SubtreeSeq(_, _)
\* the nodes below `work`, parents first
SubtreeSeq(hp, work) ==
    IF work = <<>> THEN <<>>
    ELSE <<Head(work)>> \o SubtreeSeq(hp, Held(hp, Head(work)) \o Tail(work))

PosIn(s, x) == CHOOSE i \in 1..Len(s) : s[i] = x

CopySize(hp, ptr) == Len(SubtreeSeq(hp, <<ptr>>))

\* a structurally independent copy of the node `ptr` and of everything below
\* it, laid out from id `base`; the copy has a count of its own, 1
ucl_object_copy(hp, ptr, base) ==
    LET L == SubtreeSeq(hp, <<ptr>>)
        newId(o) == IF o = NULL THEN NULL ELSE base + PosIn(L, o) - 1
        copyOf(i) ==
            [hp[L[i]] EXCEPT
                !.st = "live",
                !.ref = 1,
                !.orig = L[i],
                !.elems = [j \in 1..Len(hp[L[i]].elems) |-> newId(hp[L[i]].elems[j])],
                !.next = IF i = 1 THEN NULL ELSE newId(hp[L[i]].next)]
    IN [id \in NodeIds |->
          IF id \in base..(base + Len(L) - 1) THEN copyOf(id - base + 1) ELSE hp[id]]

---------------------------------------------------------------------------
(* The engine's parser: chunks are sequences of key = value assignments *)

Strategies ==
    {"UCL_DUPLICATE_APPEND", "UCL_DUPLICATE_MERGE", "UCL_DUPLICATE_REWRITE",
     "UCL_DUPLICATE_ERROR"}

DEFAULT_DUPLICATE_STRATEGY == "UCL_DUPLICATE_APPEND"

Item(t, i, s) == [type |-> t, iv |-> i, sv |-> s]
Entry(k, t, i, s, items) == [key |-> k, type |-> t, iv |-> i, sv |-> s, items |-> items]

\* key = "value1", key = "value2"
ChunkImplicit ==
    [entries |-> <<Entry("key", "UCL_STRING", 0, "value1", <<>>),
                   Entry("key", "UCL_STRING", 0, "value2", <<>>)>>,
     complete |-> TRUE]
\* key = "value1",
ChunkSingle ==
    [entries |-> <<Entry("key", "UCL_STRING", 0, "value1", <<>>)>>, complete |-> TRUE]
\* key = "value2"
ChunkOther ==
    [entries |-> <<Entry("key", "UCL_STRING", 0, "value2", <<>>)>>, complete |-> TRUE]
\* array = [1,2,3]
ChunkArray ==
    [entries |-> <<Entry("array", "UCL_ARRAY", 0, "",
                         <<Item("UCL_INT", 1, ""), Item("UCL_INT", 2, ""),
                           Item("UCL_INT", 3, "")>>)>>,
     complete |-> TRUE]
\* a_float = 1.5, an_integer = 1776, game = on, interval = 1s, test_string = "no scope", nothing = null
ChunkKinds ==
    [entries |-> <<Entry("a_float", "UCL_FLOAT", 15, "", <<>>),
                   Entry("an_integer", "UCL_INT", 1776, "", <<>>),
                   Entry("game", "UCL_BOOLEAN", 1, "", <<>>),
                   Entry("interval", "UCL_TIME", 10, "", <<>>),
                   Entry("test_string", "UCL_STRING", 0, "no scope", <<>>),
                   Entry("nothing", "UCL_NULL", 0, "", <<>>)>>,
     complete |-> TRUE]
\* key =
ChunkIncomplete ==
    [entries |-> <<Entry("key", "UCL_NULL", 0, "", <<>>)>>, complete |-> FALSE]

Keys == {"game", "key", "array", "a_float", "an_integer", "interval", "test_string",
         "nothing", "missing"}

RECURSIVE SumItems(_)
SumItems(es) == IF es = <<>> THEN 0 ELSE 1 + Len(Head(es).items) + SumItems(Tail(es))
\* the nodes a chunk allocates at most: the top object, when the session has
\* none yet, and one per value
ChunkSize(ps, chunk) == (IF ps.top = NULL THEN 1 ELSE 0) + SumItems(chunk.entries)

IndexOfKey(hp, es, k) ==
    LET S == {i \in 1..Len(es) : hp[es[i]].hk /\ hp[es[i]].key = k}
    IN IF S = {} THEN 0 ELSE CHOOSE i \in S : TRUE

\* the node of a parsed value, at id `base`, its array elements after it
AllocValue(hp, base, e, priority) ==
    LET n == Len(e.items)
        node == [ucl_object_new_full(e.type, priority) EXCEPT
                    !.iv = e.iv, !.sv = e.sv, !.hk = TRUE, !.key = e.key,
                    !.wide = IF "wide" \in DOMAIN e THEN e.wide ELSE <<>>,
                    !.elems = [i \in 1..n |-> base + i]]
        elem(i) == [ucl_object_new_full(e.items[i].type, priority) EXCEPT
                    !.iv = e.items[i].iv, !.sv = e.items[i].sv]
    IN [id \in NodeIds |->
          IF id = base THEN node
          ELSE IF id \in (base + 1)..(base + n) THEN elem(id - base)
          ELSE hp[id]]

\* One key = value insertion at the top level, under the chunk's priority and
\* duplicate strategy.  S = [heap, nalloc, top, trash, ok].
ucl_parser_process_object_element(S, e, priority, strategy) ==
    LET base == S.nalloc + 1
        hp1 == AllocValue(S.heap, base, e, priority)
        S1 == [S EXCEPT !.heap = hp1, !.nalloc = base + Len(e.items)]
        es == hp1[S.top].elems
        i == IndexOfKey(S.heap, es, e.key)
        tobj == es[i]
        priold == hp1[tobj].prio
        chain == ChainOf(hp1, tobj)
        inserted == [S1 EXCEPT !.heap[S.top].elems = Append(es, base)]
        appended == [S1 EXCEPT !.heap[chain[Len(chain)]].next = base]
        trashed == [S1 EXCEPT !.trash = Append(@, base)]
        replaced ==
            [S1 EXCEPT !.heap = UnrefAll([hp1 EXCEPT ![S.top].elems[i] = base], chain)]
        byPriority ==
            IF priold = priority THEN appended
            ELSE IF priold > priority THEN trashed
            ELSE replaced
        \* the new container is released and its elements go into the old one
        merged ==
            [S1 EXCEPT !.heap[base] = [@ EXCEPT !.st = "freed", !.ref = 0, !.elems = <<>>],
                       !.heap[tobj].elems = @ \o hp1[base].elems]
    IN IF i = 0 THEN inserted
       ELSE CASE strategy = "UCL_DUPLICATE_APPEND" -> byPriority
              [] strategy = "UCL_DUPLICATE_MERGE" ->
                    IF hp1[tobj].type \in ContainerKinds THEN merged ELSE byPriority
              [] strategy = "UCL_DUPLICATE_REWRITE" -> replaced
              [] strategy = "UCL_DUPLICATE_ERROR" -> [S EXCEPT !.ok = FALSE]

RECURSIVE ParseEntries(_, _, _, _)
ParseEntries(S, entries, priority, strategy) ==
    IF entries = <<>> \/ ~S.ok THEN S
    ELSE ParseEntries(ucl_parser_process_object_element(S, Head(entries), priority, strategy),
                      Tail(entries), priority, strategy)

\* The session: state "init" (nothing parsed), "parsed", "error", "freed".
\* log: the insertions asked of the session so far, one per key = value.
NewParser ==
    [state |-> "init", top |-> NULL, trash |-> <<>>, err_code |-> "UCL_EOK",
     err |-> "", chunks |-> 0, log |-> <<>>]

\* returns [parser, heap, nalloc, result]
ucl_parser_add_chunk_full(ps, hp, na, chunk, priority, strategy) ==
    IF ps.state = "error"
    THEN [parser |-> [ps EXCEPT !.chunks = @ + 1], heap |-> hp, nalloc |-> na,
          result |-> FALSE]
    ELSE LET fresh == ps.top = NULL
             top == IF fresh THEN na + 1 ELSE ps.top
             hp0 == IF fresh
                    THEN [hp EXCEPT ![top] = ucl_object_new_full("UCL_OBJECT", priority)]
                    ELSE hp
             S0 == [heap |-> hp0, nalloc |-> IF fresh THEN na + 1 ELSE na, top |-> top,
                    trash |-> ps.trash, ok |-> TRUE]
             S == ParseEntries(S0, chunk.entries, priority, strategy)
             good == S.ok /\ chunk.complete
         IN [parser |-> [ps EXCEPT
                            !.state = IF good THEN "parsed" ELSE "error",
                            !.top = top,
                            !.trash = S.trash,
                            !.err_code = IF good THEN @
                                         ELSE IF S.ok THEN "UCL_ESYNTAX" ELSE "UCL_EMERGE",
                            !.err = IF good THEN @
                                    ELSE IF S.ok THEN "unfinished key" ELSE "duplicate element",
                            !.chunks = @ + 1],
             heap |-> S.heap, nalloc |-> S.nalloc, result |-> good]

\* a file is [name, exists, chunk].  A file that cannot be opened leaves a
\* description only: neither the error code nor the state of the parser
\* changes.  The text of a file is parsed as a chunk is.
ucl_parser_add_file_full(ps, hp, na, file, priority, strategy) ==
    IF ~file.exists
    THEN [parser |-> [ps EXCEPT !.err = IF @ = "" THEN "cannot open file" ELSE @,
                                !.chunks = @ + 1],
          heap |-> hp, nalloc |-> na, result |-> FALSE]
    ELSE ucl_parser_add_chunk_full(ps, hp, na, file.chunk, priority, strategy)

\* the root node with one more reference, or NULL
ucl_parser_get_object(ps) ==
    IF ps.state # "error" /\ ps.top # NULL THEN ps.top ELSE NULL

\* releases the session's hold on the tree and on the discarded values
ucl_parser_free(ps, hp) == UnrefAll(ucl_object_unref(hp, ps.top), ps.trash)

---------------------------------------------------------------------------
(* raw/priority.rs: Priority(c_uint) *)

\* Integers of up to 64 bits are kept as their bit pattern, four limbs of 16
\* bits, least significant first (two's complement for the signed types).
Limb == 65536
TopBit == 32768

\* the bit pattern of a small non-negative integer
ToBits(n) == <<n % Limb, (n \div Limb) % Limb, 0, 0>>

\* `x as u32` of a 64-bit pattern: the low 32 bits
as_u32(bits) == <<bits[1], bits[2], 0, 0>>

\* `x as u32` of a u8 or u16 pattern: zero extension
zero_extend(bits) == bits

\* `x as i64` of an i8, i16 or i32 pattern: sign extension
sign_extend(ty, bits) ==
    CASE ty = "i8" -> IF bits[1] >= 128 THEN <<(Limb - 256) + bits[1], Limb - 1, Limb - 1, Limb - 1>>
                      ELSE bits
      [] ty = "i16" -> IF bits[1] >= TopBit THEN <<bits[1], Limb - 1, Limb - 1, Limb - 1>> ELSE bits
      [] ty = "i32" -> IF bits[2] >= TopBit THEN <<bits[1], bits[2], Limb - 1, Limb - 1>> ELSE bits
      [] OTHER -> bits

\* source: u32
normalize_unsigned(source) ==
    IF source[2] > 0 \/ source[1] > 15 THEN 15 ELSE source[1]

\* source: i64
normalize_signed(source) ==
    IF source[4] < TopBit /\ (source[4] > 0 \/ source[3] > 0 \/ source[2] > 0 \/ source[1] > 15)
    THEN 15
    ELSE IF source[4] >= TopBit THEN 0
    ELSE source[1]

Priority_new(priority) == normalize_unsigned(priority)

Priority_default == 0

as_c_uint_zero(priority) == 0
as_c_uint(priority) == priority

From_u64(source) == normalize_unsigned(as_u32(source))
From_u32(priority) == normalize_unsigned(priority)
From_u16(priority) == normalize_unsigned(zero_extend(priority))
From_u8(priority) == normalize_unsigned(zero_extend(priority))
From_i64(source) == normalize_signed(source)
From_i32(priority) == normalize_signed(sign_extend("i32", priority))
From_i16(priority) == normalize_signed(sign_extend("i16", priority))
From_i8(priority) == normalize_signed(sign_extend("i8", priority))

---------------------------------------------------------------------------
(* raw/object.rs: ObjectRef { object, kind } and Object { inner: ObjectRef } *)

\* Option::None of Option<ObjectRef> / Option<Object>, and an empty slot
None == [object |-> NULL, kind |-> "none"]

from_c_ptr(hp, object) ==
    IF object = NULL THEN None
    ELSE [object |-> object, kind |-> ucl_object_type(hp, object)]

Object_from_c_ptr(hp, object) == from_c_ptr(hp, object)

as_ptr(self) == self.object

is_object(self) == self.kind = "UCL_OBJECT"
is_array(self) == self.kind = "UCL_ARRAY"
is_string(self) == self.kind = "UCL_STRING"
is_integer(self) == self.kind = "UCL_INT"
is_float(self) == self.kind = "UCL_FLOAT"
is_boolean(self) == self.kind = "UCL_BOOLEAN"
is_time(self) == self.kind = "UCL_TIME"
is_null(self) == self.kind = "UCL_NULL"

\* the child of an object node stored under `key`: the head of its chain
ucl_object_lookup(hp, ptr, key) ==
    IF ptr = NULL \/ hp[ptr].type # "UCL_OBJECT" THEN NULL
    ELSE LET i == IndexOfKey(hp, hp[ptr].elems, key)
         IN IF i = 0 THEN NULL ELSE hp[ptr].elems[i]

\* utils.rs: a string with an interior NUL cannot become a C string
NulStrings == {"abc<NUL>d"}
to_c_string(str) == IF str \in NulStrings THEN "panic" ELSE "ok"

\* segments of a dotted path
Split(path) ==
    CASE path = "game.on" -> <<"game", "on">>
      [] path = "array.0" -> <<"array", "0">>
      [] path = "key.key" -> <<"key", "key">>
      [] OTHER -> <<path>>

ArrayIndex(seg) == CASE seg = "0" -> 1 [] seg = "1" -> 2 [] seg = "2" -> 3 [] OTHER -> 0

RECURSIVE WalkPath(_, _, _)
WalkPath(hp, ptr, segs) ==
    IF segs = <<>> \/ ptr = NULL THEN ptr
    ELSE CASE hp[ptr].type = "UCL_OBJECT" ->
                WalkPath(hp, ucl_object_lookup(hp, ptr, Head(segs)), Tail(segs))
           [] hp[ptr].type = "UCL_ARRAY" ->
                IF ArrayIndex(Head(segs)) \in 1..Len(hp[ptr].elems)
                THEN WalkPath(hp, hp[ptr].elems[ArrayIndex(Head(segs))], Tail(segs))
                ELSE NULL
           [] OTHER -> NULL

\* the node reached from an object node along a dotted path
ucl_object_lookup_path(hp, ptr, path) == WalkPath(hp, ptr, Split(path))

\* a lookup returns [ref, engine, panic]: the view or None, whether the
\* engine was called, whether the call panicked
LookupNone == [ref |-> None, engine |-> FALSE, panic |-> FALSE]

lookup_unguarded(hp, self, key) ==
    IF to_c_string(key) = "panic" THEN [LookupNone EXCEPT !.panic = TRUE]
    ELSE [ref |-> from_c_ptr(hp, ucl_object_lookup(hp, self.object, key)),
          engine |-> TRUE, panic |-> FALSE]

lookup(hp, self, key) ==
    IF ~is_object(self) THEN LookupNone
    ELSE IF to_c_string(key) = "panic" THEN [LookupNone EXCEPT !.panic = TRUE]
    ELSE [ref |-> from_c_ptr(hp, ucl_object_lookup(hp, self.object, key)),
          engine |-> TRUE, panic |-> FALSE]

lookup_path(hp, self, path) ==
    IF ~is_object(self) THEN LookupNone
    ELSE IF to_c_string(path) = "panic" THEN [LookupNone EXCEPT !.panic = TRUE]
    ELSE [ref |-> from_c_ptr(hp, ucl_object_lookup_path(hp, self.object, path)),
          engine |-> TRUE, panic |-> FALSE]

\* the lowest empty slot of a handle table, 0 when it is full
FirstFree(table) ==
    LET S == {i \in DOMAIN table : table[i] = None}
    IN IF S = {} THEN 0 ELSE CHOOSE i \in S : \A j \in S : i <= j

Live(table) == {i \in DOMAIN table : table[i] # None}

---------------------------------------------------------------------------
(* What a call hands back to its caller: the call (op), its receiver (self, *)
(* kind) and argument (arg), the result (some, iv, sv, ptr, err), whether  *)
(* the engine was called, how a read of freed memory turned out (ub), for  *)
(* a lookup the node of the view the preceding statement dropped (last),   *)
(* for a comparison the second operand (other), and for a typed extraction *)
(* the integer result as a bit pattern (bits), the list result (list) and  *)
(* whether it is wrapped in Some (opt), and the fields of the error (key,  *)
(* actual, wanted).                                                        *)

ObsNone ==
    [op |-> "none", some |-> FALSE, kind |-> "none", iv |-> 0, sv |-> "",
     ptr |-> NULL, err |-> "none", ub |-> "no", engine |-> FALSE, arg |-> "",
     self |-> NULL, last |-> NULL, other |-> NULL, key |-> "", actual |-> "none",
     wanted |-> "none", bits |-> <<>>, list |-> <<>>, opt |-> ""]

ObsOk(op) == [ObsNone EXCEPT !.op = op, !.some = TRUE]
ObsErr(op, e) == [ObsNone EXCEPT !.op = op, !.err = e]

\* error.rs: UclErrorType::from_code
from_code(num) ==
    CASE num = "UCL_EOK" -> "Ok"
      [] num = "UCL_ESYNTAX" -> "Syntax"
      [] num = "UCL_EIO" -> "Io"
      [] num = "UCL_ESTATE" -> "State"
      [] num = "UCL_ENESTED" -> "Nested"
      [] num = "UCL_EMACRO" -> "Macro"
      [] num = "UCL_EINTERNAL" -> "Internal"
      [] num = "UCL_ESSL" -> "SSL"
      [] OTHER -> "Other"

\* Parser::get_error: the description is unwrapped, so a session that holds
\* no error description makes the call panic
\* get_error dropping the engine's code
get_error_blind(ps) == IF ps.err = "" THEN "panic" ELSE from_code("UCL_EOK")

get_error(ps) == IF ps.err = "" THEN "panic" ELSE from_code(ps.err_code)

---------------------------------------------------------------------------
(* variable_handlers/ and traits.rs: the handlers the engine asks for the  *)
(* text of a ${NAME} marker.  A handler answers [found, replace, need_free, *)
(* dangling, tried, wrote]: whether it took the name, the bytes it hands    *)
(* over, whether the engine is to free them, whether they lie in a buffer  *)
(* the handler released before returning, the handlers of a registry that  *)
(* were called for the name, and the output parameters it wrote.           *)

MaxHandlers == 2

Unset == "<unset>"
\* what a read of a released buffer gives when it was written over
FreedBytes == "<freed>"

\* the output parameters of a handler
OutParams == {"replace", "replace_len", "need_free"}

NotFound ==
    [found |-> FALSE, replace |-> "", need_free |-> FALSE, dangling |-> FALSE,
     tried |-> <<>>, wrote |-> {}, invoked |-> <<>>]

starts_with(var, prefix) ==
    Len(var) >= Len(prefix) /\ SubSeq(var, 1, Len(prefix)) = prefix

\* std::env::var
env_var(environ, name) == IF name \in DOMAIN environ THEN environ[name] ELSE Unset

NoHandler == [kind |-> "none", name |-> "", text |-> "", prefix |-> ""]

\* a closure after those of the tests: |data, len, ..| if var.eq(name) { text }
Closure(name, text) == [NoHandler EXCEPT !.kind = "closure", !.name = name, !.text = text]

\* a closure that takes every name
closure_any(handler, var) ==
    [NotFound EXCEPT !.found = TRUE, !.replace = handler.text, !.need_free = TRUE,
                     !.wrote = OutParams]

closure(handler, var) ==
    IF var = handler.name
    THEN [NotFound EXCEPT !.found = TRUE, !.replace = handler.text, !.need_free = TRUE,
                          !.wrote = OutParams]
    ELSE NotFound

\* a plain extern "C" handler after `simple` of the tests, installed with a
\* null user data: *need_free = false; if var.eq(name) { text }
Extern(name, text) == [NoHandler EXCEPT !.kind = "extern", !.name = name, !.text = text]

simple(handler, var) ==
    IF var = handler.name
    THEN [NotFound EXCEPT !.found = TRUE, !.replace = handler.text, !.need_free = TRUE,
                          !.wrote = OutParams]
    ELSE [NotFound EXCEPT !.wrote = {"need_free"}]

\* EnvVariableHandler::with_prefix
with_prefix(prefix) == [NoHandler EXCEPT !.kind = "env", !.prefix = prefix]

\* EnvVariableHandler::default
EnvVariableHandler_default == with_prefix("ENV_")

\* the closure of with_prefix, clearing *need_free before it looks at the name
EnvVariableHandler_closure_eager(prefix, environ, var) ==
    IF starts_with(var, prefix) /\ env_var(environ, var) # Unset
    THEN [NotFound EXCEPT !.found = TRUE, !.replace = env_var(environ, var),
                          !.need_free = FALSE, !.dangling = TRUE, !.wrote = OutParams]
    ELSE [NotFound EXCEPT !.wrote = {"need_free"}]

\* the closure of with_prefix: the name is looked up as it is, and the bytes
\* handed over are those of `value`, which is dropped on return
EnvVariableHandler_closure(prefix, environ, var) ==
    IF starts_with(var, prefix) /\ env_var(environ, var) # Unset
    THEN [NotFound EXCEPT !.found = TRUE, !.replace = env_var(environ, var),
                          !.need_free = FALSE, !.dangling = TRUE, !.wrote = OutParams]
    ELSE NotFound

\* VariableHandler::handle
handle(handler, environ, var) ==
    CASE handler.kind = "closure" -> closure(handler, var)
      [] handler.kind = "env" -> EnvVariableHandler_closure(handler.prefix, environ, var)
      [] OTHER -> NotFound

RECURSIVE CompoundHandler_loop_all(_, _, _, _, _)
\* the dispatch loop without its break: the last handler that takes the
\* name gives the answer
CompoundHandler_loop_all(handlers, environ, var, i, acc) ==
    IF i > Len(handlers) THEN acc
    ELSE LET r == handle(handlers[i], environ, var)
         IN CompoundHandler_loop_all(handlers, environ, var, i + 1,
                IF r.found THEN [r EXCEPT !.tried = Append(acc.tried, i)]
                ELSE [acc EXCEPT !.tried = Append(acc.tried, i)])

RECURSIVE CompoundHandler_loop(_, _, _, _, _)
\* for handler in handlers.iter_mut() { if handler.handle(..) { found = true; break; } }
CompoundHandler_loop(handlers, environ, var, i, acc) ==
    IF i > Len(handlers) THEN acc
    ELSE LET r == handle(handlers[i], environ, var)
         IN IF r.found THEN [r EXCEPT !.tried = Append(acc.tried, i)]
            ELSE CompoundHandler_loop(handlers, environ, var, i + 1,
                                      [acc EXCEPT !.tried = Append(acc.tried, i)])

\* the closure of CompoundHandler::default
CompoundHandler_closure(handlers, environ, var) ==
    CompoundHandler_loop(handlers, environ, var, 1, NotFound)

CompoundHandler_default == [NoHandler EXCEPT !.kind = "compound"]

\* the closure behind the data pointer, called with the engine's arguments
call_closure(hk, var) ==
    IF hk.var_handler.kind = "compound"
    THEN CompoundHandler_closure(hk.handlers, hk.environ, var)
    ELSE handle(hk.var_handler, hk.environ, var)

\* a trampoline that calls the closure a second time
trampoline_twice(hk, var) ==
    [call_closure(hk, var) EXCEPT
        !.invoked = <<[closure |-> hk.var_handler, var |-> var],
                      [closure |-> hk.var_handler, var |-> var]>>]

\* unpack_closure: the trampoline the engine calls with the closure as data;
\* invoked is the calls of the closure it makes
trampoline(hk, var) ==
    [call_closure(hk, var) EXCEPT
        !.invoked = <<[closure |-> hk.var_handler, var |-> var]>>]

\* the engine's call of the installed function with the installed user data
ucl_variable_handler(hk, var) ==
    IF hk.var_handler.kind = "extern" THEN simple(hk.var_handler, var)
    ELSE trampoline(hk, var)

\* the closure whose address is the installed user data was moved or dropped
Dead(hk) == hk.owner \in {"moved", "dropped"}

\* the names of the environment the model follows
EnvNames == {"ENV_X", "X"}

NoHooks ==
    [handlers |-> <<>>, var_handler |-> NoHandler, owner |-> "none",
     environ |-> [n \in EnvNames |-> Unset], calls |-> <<>>]

\* a string value that is one marker, ${NAME}
IsMarker(s) ==
    Len(s) >= 3 /\ SubSeq(s, 1, 2) = "${" /\ SubSeq(s, Len(s), Len(s)) = "}"
VarOf(s) == SubSeq(s, 3, Len(s) - 1)

\* the engine asks the handler for a marker of a string value
Asks(hk, e) == e.type = "UCL_STRING" /\ IsMarker(e.sv) /\ hk.var_handler.kind # "none"

\* the entries whose replacement lies in a released buffer, or is made by
\* a closure read from released memory
Dangling(hk, entries) ==
    {i \in 1..Len(entries) :
        Asks(hk, entries[i])
        /\ (Dead(hk) \/ ucl_variable_handler(hk, VarOf(entries[i].sv)).dangling)}

\* the engine's expansion of one string value: it calls the handler once to
\* measure the replacement and once more to copy it; a marker no handler
\* takes stays as it is written
ucl_expand_variable(hk, e, junk) ==
    IF ~Asks(hk, e) THEN [out |-> e.sv, calls |-> <<>>]
    ELSE LET r == ucl_variable_handler(hk, VarOf(e.sv))
             out == IF Dead(hk) /\ junk THEN FreedBytes
                    ELSE IF ~r.found THEN e.sv
                    ELSE IF r.dangling /\ junk THEN FreedBytes ELSE r.replace
             call == [key |-> e.key, var |-> VarOf(e.sv), tried |-> r.tried,
                      found |-> r.found, replace |-> r.replace, out |-> out,
                      need_free |-> r.need_free, dangling |-> r.dangling,
                      wrote |-> r.wrote, invoked |-> r.invoked, owner |-> hk.owner,
                      via |-> hk.var_handler, handlers |-> hk.handlers,
                      environ |-> hk.environ]
         IN [out |-> out, calls |-> <<call, call>>]

RECURSIVE ucl_expand_variables(_, _, _, _)
\* the expansion of the values of a chunk, in the order of the text
ucl_expand_variables(hk, entries, freed, i) ==
    IF i > Len(entries) THEN [entries |-> entries, calls |-> <<>>]
    ELSE LET x == ucl_expand_variable(hk, entries[i], i \in freed)
             rest == ucl_expand_variables(hk, entries, freed, i + 1)
         IN [entries |-> [rest.entries EXCEPT ![i] = [@ EXCEPT !.sv = x.out]],
             calls |-> x.calls \o rest.calls]

---------------------------------------------------------------------------
(* Initial state: Parser::default(), no handle yet *)

\* no conversion under way
ConvIdle == [ty |-> "none", bits |-> <<0, 0, 0, 0>>, out |-> 0, done |-> FALSE]

\* no iterator in the slot
NoIter ==
    [object |-> None, inner |-> "none", impl_it |-> NULL, expl_it |-> 0,
     src |-> "none", slot |-> 0, born |-> 0, out |-> <<>>, ended |-> FALSE,
     late |-> FALSE]

Init ==
    /\ heap = [id \in NodeIds |-> FreeSlot]
    /\ nalloc = 0
    /\ parser = NewParser
    /\ objects = [i \in 1..MaxObjects |-> None]
    /\ views = [i \in 1..MaxViews |-> None]
    /\ iters = [i \in 1..MaxIters |-> NoIter]
    /\ obs = ObsNone
    /\ made = 0
    /\ conv = ConvIdle
    /\ hooks = NoHooks
    /\ cursors = [i \in 1..MaxIters |-> "free"]

---------------------------------------------------------------------------
(* raw/parser.rs *)

\* the insertions a chunk asks for, with the call's priority, strategy and
\* result
Insertions(chunk, priority, strategy, result) ==
    [i \in 1..Len(chunk.entries) |->
        [key |-> chunk.entries[i].key, type |-> chunk.entries[i].type,
         iv |-> chunk.entries[i].iv, sv |-> chunk.entries[i].sv,
         priority |-> priority, strategy |-> strategy, ok |-> result]]

add_chunk_full(chunk, priority, strategy) ==
    /\ parser.state # "freed"
    /\ parser.chunks < MaxChunks
    /\ nalloc + ChunkSize(parser, chunk) <= MaxNodes
    /\ \E freed \in SUBSET Dangling(hooks, chunk.entries) :
          LET x == ucl_expand_variables(hooks, chunk.entries, freed, 1)
              r == ucl_parser_add_chunk_full(parser, heap, nalloc,
                                             [chunk EXCEPT !.entries = x.entries],
                                             as_c_uint(priority), strategy)
          IN /\ heap' = r.heap
             /\ nalloc' = r.nalloc
             /\ parser' = [r.parser EXCEPT
                              !.log = @ \o Insertions([chunk EXCEPT !.entries = x.entries],
                                                      priority, strategy, r.result)]
             /\ hooks' = [hooks EXCEPT !.calls = @ \o x.calls]
             /\ obs' = IF r.result THEN ObsOk("add_chunk_full")
                       ELSE ObsErr("add_chunk_full", get_error(r.parser))
    /\ UNCHANGED <<objects, views, iters, made, conv, cursors>>

\* what an add_file_full that reached the engine leaves: r is the engine's
\* answer, x the expansion of the markers of the text
FileAdded(file, r, x, insertions) ==
    /\ heap' = r.heap
    /\ nalloc' = r.nalloc
    /\ parser' = [r.parser EXCEPT !.log = IF file.exists THEN @ \o insertions ELSE @]
    /\ hooks' = [hooks EXCEPT !.calls = IF file.exists THEN @ \o x.calls ELSE @]
    /\ obs' = IF r.result
              THEN [ObsOk("add_file_full") EXCEPT !.arg = file.name]
              ELSE [ObsErr("add_file_full", get_error(r.parser)) EXCEPT !.arg = file.name]

add_file_full(file, priority, strategy) ==
    /\ parser.state # "freed"
    /\ parser.chunks < MaxChunks
    /\ nalloc + ChunkSize(parser, file.chunk) <= MaxNodes
    /\ \/ /\ to_c_string(file.name) = "panic"
          /\ obs' = [ObsErr("add_file_full", "panic") EXCEPT !.arg = file.name]
          /\ UNCHANGED <<heap, nalloc, parser, hooks>>
       \/ /\ to_c_string(file.name) # "panic"
          /\ \E freed \in SUBSET Dangling(hooks, file.chunk.entries) :
               \E x \in {ucl_expand_variables(hooks, file.chunk.entries, freed, 1)} :
                  \E r \in {ucl_parser_add_file_full(
                                parser, heap, nalloc,
                                [file EXCEPT !.chunk.entries = x.entries],
                                as_c_uint(priority), strategy)} :
                     FileAdded(file, r, x,
                               Insertions([file.chunk EXCEPT !.entries = x.entries],
                                          priority, strategy, r.result))
    /\ UNCHANGED <<objects, views, iters, made, conv, cursors>>

get_object ==
    /\ parser.state # "freed"
    /\ FirstFree(objects) # 0
    /\ LET result == ucl_parser_get_object(parser) IN
       IF result # NULL
       THEN /\ heap' = ucl_object_ref(heap, result)
            /\ objects' = [objects EXCEPT ![FirstFree(objects)] = Object_from_c_ptr(heap, result)]
            /\ obs' = [ObsOk("get_object") EXCEPT !.ptr = result]
       ELSE /\ obs' = ObsErr("get_object", get_error(parser))
            /\ UNCHANGED <<heap, objects>>
    /\ UNCHANGED <<nalloc, parser, views, iters, made, conv, hooks, cursors>>

Parser_drop ==
    /\ parser.state # "freed"
    /\ heap' = ucl_parser_free(parser, heap)
    /\ parser' = [NewParser EXCEPT !.state = "freed", !.chunks = parser.chunks,
                                   !.log = parser.log]
    /\ obs' = ObsOk("Parser_drop")
    /\ UNCHANGED <<nalloc, objects, views, iters, made, conv, hooks, cursors>>

---------------------------------------------------------------------------
(* raw/object.rs: the owning handle *)

Object_clone_noref(hp, self) == hp
Object_clone_heap(hp, self) == ucl_object_ref(hp, as_ptr(self))

Object_clone(h) ==
    /\ objects[h] # None
    /\ FirstFree(objects) # 0
    /\ heap' = Object_clone_heap(heap, objects[h])
    /\ objects' = [objects EXCEPT ![FirstFree(objects)] = Object_from_c_ptr(heap', as_ptr(objects[h]))]
    /\ obs' = [ObsOk("clone") EXCEPT !.ptr = as_ptr(objects[h])]
    /\ UNCHANGED <<nalloc, parser, views, iters, made, conv, hooks, cursors>>

\* ToOwned for ObjectRef
to_owned(self) ==
    /\ self # None
    /\ FirstFree(objects) # 0
    /\ heap' = ucl_object_ref(heap, as_ptr(self))
    /\ objects' = [objects EXCEPT ![FirstFree(objects)] = Object_from_c_ptr(heap', as_ptr(self))]
    /\ obs' = [ObsOk("to_owned") EXCEPT !.ptr = as_ptr(self)]
    /\ UNCHANGED <<nalloc, parser, views, iters, made, conv, hooks, cursors>>

deep_copy_shared(self) ==
    /\ self # None
    /\ FirstFree(objects) # 0
    /\ made < MaxMade
    /\ heap' = ucl_object_ref(heap, as_ptr(self))
    /\ objects' = [objects EXCEPT ![FirstFree(objects)] = Object_from_c_ptr(heap', as_ptr(self))]
    /\ obs' = [ObsOk("deep_copy") EXCEPT !.ptr = as_ptr(self), !.self = as_ptr(self)]
    /\ made' = made + 1
    /\ UNCHANGED <<nalloc, parser, views, iters, conv, hooks, cursors>>

deep_copy(self) ==
    /\ self # None
    /\ FirstFree(objects) # 0
    /\ made < MaxMade
    /\ nalloc + CopySize(heap, as_ptr(self)) <= MaxNodes
    /\ heap' = ucl_object_copy(heap, as_ptr(self), nalloc + 1)
    /\ nalloc' = nalloc + CopySize(heap, as_ptr(self))
    /\ objects' = [objects EXCEPT ![FirstFree(objects)] = Object_from_c_ptr(heap', nalloc + 1)]
    /\ obs' = [ObsOk("deep_copy") EXCEPT !.ptr = nalloc + 1, !.self = as_ptr(self)]
    /\ made' = made + 1
    /\ UNCHANGED <<parser, views, iters, conv, hooks, cursors>>

\* the literals of From<i64>, From<f64>, From<bool>, From<&str>
Literals ==
    {Item("UCL_INT", 1, ""), Item("UCL_INT", 2, ""), Item("UCL_INT", -1776, ""),
     Item("UCL_FLOAT", 10, ""), Item("UCL_FLOAT", 15, ""), Item("UCL_FLOAT", 20, ""),
     Item("UCL_BOOLEAN", 0, ""), Item("UCL_BOOLEAN", 1, ""),
     Item("UCL_STRING", 0, "a string without null"), Item("UCL_STRING", 0, "")}
OwnLiterals == {Item("UCL_INT", 1776, "")}

\* ucl_object_fromint / fromdouble / frombool / fromstring
ucl_object_from(source) ==
    [ucl_object_new_full(source.type, 0) EXCEPT
        !.iv = source.iv, !.sv = source.sv,
        !.wide = IF "wide" \in DOMAIN source THEN source.wide ELSE <<>>]

Object_from(source) ==
    /\ FirstFree(objects) # 0
    /\ made < MaxMade
    /\ nalloc + 1 <= MaxNodes
    /\ heap' = [heap EXCEPT ![nalloc + 1] = ucl_object_from(source)]
    /\ nalloc' = nalloc + 1
    /\ objects' = [objects EXCEPT ![FirstFree(objects)] = Object_from_c_ptr(heap', nalloc + 1)]
    /\ obs' = [ObsOk("from") EXCEPT !.ptr = nalloc + 1, !.arg = source.type,
                                    !.iv = source.iv, !.sv = source.sv]
    /\ made' = made + 1
    /\ UNCHANGED <<parser, views, iters, conv, hooks, cursors>>

Object_drop_heap(hp, self) ==
    IF self.object # NULL THEN ucl_object_unref(hp, self.object) ELSE hp

Object_drop(h) ==
    /\ objects[h] # None
    /\ \A i \in 1..MaxIters : ~(iters[i].src = "objects" /\ iters[i].slot = h)
    /\ heap' = Object_drop_heap(heap, objects[h])
    /\ objects' = [objects EXCEPT ![h] = None]
    /\ obs' = [ObsOk("Object_drop") EXCEPT !.ptr = as_ptr(objects[h])]
    /\ UNCHANGED <<nalloc, parser, views, iters, made, conv, hooks, cursors>>

\* DerefMut for Object hands out &mut self.inner; `*h = v` moves the view v
\* into the Object's inner ObjectRef, and the ObjectRef it held, which has no
\* Drop, is let go
deref_mut_assign(h, v) ==
    /\ objects[h] # None
    /\ views[v] # None
    /\ \A i \in 1..MaxIters : ~(iters[i].src = "objects" /\ iters[i].slot = h)
    /\ \A i \in 1..MaxIters : ~(iters[i].src = "views" /\ iters[i].slot = v)
    /\ objects' = [objects EXCEPT ![h] = views[v]]
    /\ views' = [views EXCEPT ![v] = None]
    /\ obs' = [ObsOk("deref_mut_assign") EXCEPT !.ptr = as_ptr(views[v]),
                                                !.last = as_ptr(objects[h])]
    /\ UNCHANGED <<heap, nalloc, parser, iters, made, conv, hooks, cursors>>

\* the ObjectRef an expression can name while the Object `h` is borrowed:
\* the handle itself (Deref) or a child it looks up
Receivers(h) ==
    IF objects[h] = None THEN {}
    ELSE ({objects[h]} \cup {lookup(heap, objects[h], k).ref : k \in Keys}) \ {None}

---------------------------------------------------------------------------
(* The ownership machine *)

OwnInputs ==
    {[chunk |-> ChunkImplicit, priority |-> 0], [chunk |-> ChunkArray, priority |-> 0],
     [chunk |-> ChunkOther, priority |-> 1]}

Next ==
    \/ \E i \in OwnInputs :
          add_chunk_full(i.chunk, i.priority, DEFAULT_DUPLICATE_STRATEGY)
    \/ get_object
    \/ \E h \in 1..MaxObjects : Object_clone(h)
    \/ \E h \in 1..MaxObjects : \E r \in Receivers(h) : to_owned(r)
    \/ \E h \in 1..MaxObjects : \E r \in Receivers(h) : deep_copy(r)
    \/ \E source \in OwnLiterals : Object_from(source)
    \/ \E h \in 1..MaxObjects : Object_drop(h)
    \/ Parser_drop

Spec == Init /\ [][Next]_vars

---------------------------------------------------------------------------
(* Ownership: the count of a node against the holds on it *)

\* the references the engine itself holds on node n: the session's hold on
\* the root and on each discarded value, and one per live container holding n
EngineHolds(n) ==
    (IF parser.state # "freed" /\ parser.top = n THEN 1 ELSE 0)
    + (IF parser.state # "freed" THEN Cardinality({i \in 1..Len(parser.trash) : parser.trash[i] = n}) ELSE 0)
    + Cardinality({p \in NodeIds : heap[p].st = "live" /\ n \in SeqToSet(Held(heap, p))})

\* the live owning handles on node n
Handles(n) == {h \in 1..MaxObjects : objects[h] # None /\ as_ptr(objects[h]) = n}

\* C1: the count of every live node is the engine's holds plus the live
\* Object handles on it; every Object's node is live; no count is touched
\* after its node was freed; and once the session and every Object are gone
\* no node is left live.
C1_RefcountBalance ==
    /\ \A n \in NodeIds :
          /\ heap[n].st # "corrupt"
          /\ heap[n].st = "live" => heap[n].ref = EngineHolds(n) + Cardinality(Handles(n))
          /\ Handles(n) # {} => heap[n].st = "live"
    /\ (parser.state = "freed" /\ Live(objects) = {})
          => \A n \in NodeIds : heap[n].st # "live"

\* an Object made by to_owned on a child outlives the session and the root
\* handle: its node is the only one left live, with a count of one
C1_Witness ==
    /\ parser.state = "freed"
    /\ \E h \in 1..MaxObjects :
          /\ objects[h] # None
          /\ heap[as_ptr(objects[h])].hk
          /\ heap[as_ptr(objects[h])].ref = 1
          /\ \E n \in NodeIds : heap[n].st = "freed" /\ heap[n].type = "UCL_OBJECT"

---------------------------------------------------------------------------
(* The engine's readers of a node *)

\* the integer part of a number of tenths, rounded towards zero
Trunc10(d) == IF d >= 0 THEN d \div 10 ELSE -((-d) \div 10)

ucl_object_tostring_safe(hp, ptr) ==
    IF ptr = NULL \/ hp[ptr].type # "UCL_STRING" THEN [ok |-> FALSE, iv |-> 0, sv |-> ""]
    ELSE [ok |-> TRUE, iv |-> 0, sv |-> hp[ptr].sv]

ucl_object_toint_safe(hp, ptr) ==
    IF ptr = NULL THEN [ok |-> FALSE, iv |-> 0, sv |-> ""]
    ELSE CASE hp[ptr].type = "UCL_INT" -> [ok |-> TRUE, iv |-> hp[ptr].iv, sv |-> ""]
           [] hp[ptr].type \in {"UCL_FLOAT", "UCL_TIME"} ->
                [ok |-> TRUE, iv |-> Trunc10(hp[ptr].iv), sv |-> ""]
           [] OTHER -> [ok |-> FALSE, iv |-> 0, sv |-> ""]

\* the result is a number of tenths
ucl_object_todouble_safe(hp, ptr) ==
    IF ptr = NULL THEN [ok |-> FALSE, iv |-> 0, sv |-> ""]
    ELSE CASE hp[ptr].type = "UCL_INT" -> [ok |-> TRUE, iv |-> hp[ptr].iv * 10, sv |-> ""]
           [] hp[ptr].type \in {"UCL_FLOAT", "UCL_TIME"} ->
                [ok |-> TRUE, iv |-> hp[ptr].iv, sv |-> ""]
           [] OTHER -> [ok |-> FALSE, iv |-> 0, sv |-> ""]

ucl_object_toboolean_safe(hp, ptr) ==
    IF ptr = NULL \/ hp[ptr].type # "UCL_BOOLEAN" THEN [ok |-> FALSE, iv |-> 0, sv |-> ""]
    ELSE [ok |-> TRUE, iv |-> hp[ptr].iv, sv |-> ""]

\* NULL (ok = FALSE) for a node that has no key
ucl_object_key(hp, ptr) ==
    IF ptr = NULL \/ ~hp[ptr].hk THEN [ok |-> FALSE, iv |-> 0, sv |-> ""]
    ELSE [ok |-> TRUE, iv |-> 0, sv |-> hp[ptr].key]

ucl_object_get_priority(hp, ptr) == IF ptr = NULL THEN 0 ELSE hp[ptr].prio

---------------------------------------------------------------------------
(* raw/object.rs: the typed accessors.  A result is [some, iv, sv, engine]; *)
(* engine tells whether the call read the node through the engine.         *)

\* None returned before the engine is called
Nothing == [some |-> FALSE, iv |-> 0, sv |-> "", engine |-> FALSE]
\* None returned because the engine's conversion failed
Refused == [some |-> FALSE, iv |-> 0, sv |-> "", engine |-> TRUE]
\* Some(value) read through the engine
Some(iv, sv) == [some |-> TRUE, iv |-> iv, sv |-> sv, engine |-> TRUE]

\* utils.rs: None for a null pointer
to_str(cstring) == IF cstring.ok THEN Some(0, cstring.sv) ELSE Refused

as_string(hp, self) ==
    IF ~is_string(self) THEN Nothing
    ELSE LET result == ucl_object_tostring_safe(hp, self.object)
         IN IF result.ok THEN to_str(result) ELSE Refused

as_i64(hp, self) ==
    IF ~is_integer(self) THEN Nothing
    ELSE LET result == ucl_object_toint_safe(hp, self.object)
         IN IF result.ok THEN Some(result.iv, "") ELSE Refused

as_f64(hp, self) ==
    IF ~(is_float(self) \/ is_time(self)) THEN Nothing
    ELSE LET result == ucl_object_todouble_safe(hp, self.object)
         IN IF result.ok THEN Some(result.iv, "") ELSE Refused

as_time_unguarded(hp, self) == as_f64(hp, self)

as_time(hp, self) ==
    IF ~is_time(self) THEN Nothing ELSE as_f64(hp, self)

as_bool_refusing(hp, self) == Nothing
as_bool(hp, self) ==
    IF ~is_boolean(self) THEN Nothing
    ELSE LET result == ucl_object_toboolean_safe(hp, self.object)
         IN IF result.ok THEN Some(result.iv, "") ELSE Refused

as_null(hp, self) ==
    IF ~is_null(self) THEN Nothing ELSE [Some(0, "") EXCEPT !.engine = FALSE]

kind(self) == self.kind

key(hp, self) == to_str(ucl_object_key(hp, self.object))

priority(hp, self) ==
    LET out == ucl_object_get_priority(hp, self.object)
    IN Some(From_u32(ToBits(out)), "")

---------------------------------------------------------------------------
(* The engine's comparison of two nodes *)

\* ucl_type_t, in the order of the enumeration
TypeRank(t) ==
    CASE t = "UCL_OBJECT" -> 0 [] t = "UCL_ARRAY" -> 1 [] t = "UCL_INT" -> 2
      [] t = "UCL_FLOAT" -> 3 [] t = "UCL_STRING" -> 4 [] t = "UCL_BOOLEAN" -> 5
      [] t = "UCL_TIME" -> 6 [] OTHER -> 8

\* the strings of the model, in strcmp order, and their lengths
StrOrder == <<"", "a string without null", "no scope", "value1", "value2">>
StrLen(str) ==
    CASE str = "" -> 0 [] str = "a string without null" -> 21 [] str = "no scope" -> 8
      [] OTHER -> 6
strcmp(a, b) == PosIn(StrOrder, a) - PosIn(StrOrder, b)

RECURSIVE ucl_object_compare(_, _, _)
RECURSIVE CompareElems(_, _, _)
RECURSIVE CompareEntries(_, _, _)

\* arrays of equal length: the first difference of two elements at one index
CompareElems(hp, e1, e2) ==
    IF e1 = <<>> THEN 0
    ELSE LET c == ucl_object_compare(hp, Head(e1), Head(e2))
         IN IF c # 0 THEN c ELSE CompareElems(hp, Tail(e1), Tail(e2))

\* objects of equal length: every entry of the first against the entry of the
\* same key in the second
CompareEntries(hp, e1, o2) ==
    IF e1 = <<>> THEN 0
    ELSE LET cmp == ucl_object_lookup(hp, o2, hp[Head(e1)].key)
         IN IF cmp = NULL THEN 1
            ELSE LET c == ucl_object_compare(hp, Head(e1), cmp)
                 IN IF c # 0 THEN c ELSE CompareEntries(hp, Tail(e1), o2)

ucl_object_compare(hp, o1, o2) ==
    LET t == hp[o1].type
        d1 == ucl_object_todouble_safe(hp, o1).iv
        d2 == ucl_object_todouble_safe(hp, o2).iv
        n1 == Len(hp[o1].elems)
        n2 == Len(hp[o2].elems)
    IN IF t # hp[o2].type THEN TypeRank(t) - TypeRank(hp[o2].type)
       ELSE CASE t = "UCL_STRING" ->
                   IF StrLen(hp[o1].sv) = StrLen(hp[o2].sv) /\ StrLen(hp[o1].sv) > 0
                   THEN strcmp(hp[o1].sv, hp[o2].sv)
                   ELSE StrLen(hp[o1].sv) - StrLen(hp[o2].sv)
              [] t \in {"UCL_INT", "UCL_FLOAT", "UCL_TIME"} -> Trunc10(d1 - d2)
              [] t = "UCL_BOOLEAN" -> hp[o1].iv - hp[o2].iv
              [] t = "UCL_ARRAY" ->
                   IF n1 = n2 /\ n1 > 0 THEN CompareElems(hp, hp[o1].elems, hp[o2].elems)
                   ELSE n1 - n2
              [] t = "UCL_OBJECT" ->
                   IF n1 = n2 /\ n1 > 0 THEN CompareEntries(hp, hp[o1].elems, o2)
                   ELSE n1 - n2
              [] OTHER -> 0

\* PartialEq for ObjectRef
eq(hp, self, other) == ucl_object_compare(hp, as_ptr(self), as_ptr(other)) = 0

\* PartialOrd for ObjectRef: "Less", "Equal" or "Greater"
partial_cmp(hp, self, other) ==
    LET cmp == ucl_object_compare(hp, as_ptr(self), as_ptr(other))
    IN IF cmp = 0 THEN "Equal" ELSE IF cmp < 0 THEN "Less" ELSE "Greater"

---------------------------------------------------------------------------
(* Calls on a view.  A call that reads a freed node through the engine has *)
(* no defined result: it may see the stale content, see anything else, or  *)
(* crash.                                                                  *)

Refs == ({views[v] : v \in 1..MaxViews} \cup {objects[h] : h \in 1..MaxObjects}) \ {None}

Garbage == [some |-> TRUE, iv |-> -1, sv |-> "<garbage>", engine |-> TRUE]

Outcomes(hp, self, ret) ==
    IF ret.engine /\ hp[self.object].st # "live"
    THEN {[ret |-> ret, ub |-> "stale"], [ret |-> Garbage, ub |-> "garbage"],
          [ret |-> Refused, ub |-> "garbage"], [ret |-> Refused, ub |-> "crash"]}
    ELSE {[ret |-> ret, ub |-> "no"]}

\* the call `op` on `self`, whose defined result is `ret`
Read(op, self, ret) ==
    /\ \E o \in Outcomes(heap, self, ret) :
          obs' = [ObsNone EXCEPT !.op = op, !.some = o.ret.some, !.iv = o.ret.iv,
                                 !.sv = o.ret.sv, !.engine = o.ret.engine, !.ub = o.ub,
                                 !.kind = self.kind, !.ptr = self.object,
                                 !.self = self.object]
    /\ UNCHANGED <<heap, nalloc, parser, objects, views, iters, made, conv, hooks, cursors>>

call_as_string(self) == Read("as_string", self, as_string(heap, self))
call_as_i64(self) == Read("as_i64", self, as_i64(heap, self))
call_as_f64(self) == Read("as_f64", self, as_f64(heap, self))
call_as_time(self) == Read("as_time", self, as_time(heap, self))
call_as_bool(self) == Read("as_bool", self, as_bool(heap, self))
call_as_null(self) == Read("as_null", self, as_null(heap, self))
call_key(self) == Read("key", self, key(heap, self))
call_priority(self) == Read("priority", self, priority(heap, self))
call_kind(self) == Read("kind", self, [Nothing EXCEPT !.some = TRUE, !.sv = kind(self)])

\* self == other, self.partial_cmp(other)
call_partial_cmp(self, other) ==
    /\ \E o \in (IF \A r \in {self, other} : heap[r.object].st = "live"
                 THEN {[sv |-> partial_cmp(heap, self, other), ub |-> "no"]}
                 ELSE {[sv |-> partial_cmp(heap, self, other), ub |-> "stale"],
                       [sv |-> "Less", ub |-> "garbage"], [sv |-> "Equal", ub |-> "garbage"],
                       [sv |-> "Greater", ub |-> "garbage"], [sv |-> "", ub |-> "crash"]}) :
          obs' = [ObsOk("partial_cmp") EXCEPT !.sv = o.sv, !.ub = o.ub, !.kind = self.kind,
                                              !.ptr = self.object, !.self = self.object,
                                              !.other = other.object, !.engine = TRUE]
    /\ UNCHANGED <<heap, nalloc, parser, objects, views, iters, made, conv, hooks, cursors>>

\* self == other, between two live nodes
call_eq(self, other) ==
    /\ \A r \in {self, other} : heap[r.object].st = "live"
    /\ obs' = [ObsNone EXCEPT !.op = "eq", !.some = eq(heap, self, other),
                              !.kind = self.kind, !.ptr = self.object,
                              !.self = self.object, !.other = other.object,
                              !.engine = TRUE]
    /\ UNCHANGED <<heap, nalloc, parser, objects, views, iters, made, conv, hooks, cursors>>

\* a lookup through the engine on a freed node has no defined result either
LookupOutcomes(hp, self, r) ==
    IF r.engine /\ hp[self.object].st # "live"
    THEN {[r |-> r, ub |-> "stale"], [r |-> [r EXCEPT !.ref = None], ub |-> "garbage"],
          [r |-> [r EXCEPT !.ref = None], ub |-> "crash"]}
    ELSE {[r |-> r, ub |-> "no"]}

\* the returned view is kept in a free slot; without one it is a temporary,
\* dropped at the end of the statement
Looked(op, self, arg, r) ==
    /\ \E o \in LookupOutcomes(heap, self, r) :
          /\ obs' = [ObsNone EXCEPT !.op = op, !.some = o.r.ref # None, !.ptr = o.r.ref.object,
                                    !.kind = self.kind, !.arg = arg, !.engine = o.r.engine,
                                    !.err = IF o.r.panic THEN "panic" ELSE "none", !.ub = o.ub,
                                    !.self = self.object,
                                    !.last = IF obs.op = "ObjectRef_drop" THEN obs.ptr ELSE NULL]
          /\ views' = IF o.r.ref # None /\ FirstFree(views) # 0
                      THEN [views EXCEPT ![FirstFree(views)] = o.r.ref]
                      ELSE views
    /\ UNCHANGED <<heap, nalloc, parser, objects, iters, made, conv, hooks, cursors>>

call_lookup(self, k) == Looked("lookup", self, k, lookup(heap, self, k))
call_lookup_path(self, path) == Looked("lookup_path", self, path, lookup_path(heap, self, path))

\* ObjectRef has no Drop: letting go of a view leaves the engine alone
ObjectRef_drop_unref(hp, self) == ucl_object_unref(hp, self.object)
ObjectRef_drop_heap(hp, self) == hp

ObjectRef_drop(v) ==
    /\ views[v] # None
    /\ \A i \in 1..MaxIters : ~(iters[i].src = "views" /\ iters[i].slot = v)
    /\ heap' = ObjectRef_drop_heap(heap, views[v])
    /\ views' = [views EXCEPT ![v] = None]
    /\ obs' = [ObsOk("ObjectRef_drop") EXCEPT !.ptr = views[v].object, !.kind = views[v].kind]
    /\ UNCHANGED <<nalloc, parser, objects, iters, made, conv, hooks, cursors>>

---------------------------------------------------------------------------
(* The engine's safe iterator and raw/iterator.rs *)

UCL_ITERATE_BOTH == {"UCL_ITERATE_EXPLICIT", "UCL_ITERATE_IMPLICIT"}

\* the cursor over `ptr`: impl_it walks the chain, expl_it the children
ucl_object_iterate_new(ptr) == [inner |-> "cursor", impl_it |-> ptr, expl_it |-> 0]

\* the engine could not allocate the cursor: it returns NULL
ucl_object_iterate_new_oom(ptr) == [inner |-> "null", impl_it |-> NULL, expl_it |-> 0]

\* the memory of the cursors once the engine handed out `cursor` for slot i
Allocated(cs, i, cursor) ==
    IF cursor.inner = "cursor" THEN [cs EXCEPT ![i] = "live"] ELSE cs

\* ucl_object_iterate_free: the cursor's memory is released; the engine
\* requires that the cursor is not NULL, and reads it otherwise.  Returns the
\* outcomes [cursors, ub].
ucl_object_iterate_free(cs, i, inner) ==
    IF inner = "null"
    THEN {[cursors |-> cs, ub |-> "abort"], [cursors |-> cs, ub |-> "crash"]}
    ELSE {[cursors |-> [cs EXCEPT ![i] = IF @ = "live" THEN "free" ELSE "corrupt"],
           ub |-> "no"]}

RECURSIVE ucl_object_iterate_full(_, _, _)
\* returns [ret, impl_it, expl_it]: the next node or NULL, and the cursor
ucl_object_iterate_full(hp, it, type) ==
    IF it.impl_it = NULL THEN [ret |-> NULL, impl_it |-> NULL, expl_it |-> it.expl_it]
    ELSE IF hp[it.impl_it].type \in ContainerKinds
    THEN IF it.expl_it < Len(hp[it.impl_it].elems)
         THEN [ret |-> hp[it.impl_it].elems[it.expl_it + 1], impl_it |-> it.impl_it,
               expl_it |-> it.expl_it + 1]
         ELSE IF "UCL_ITERATE_IMPLICIT" \in type
         THEN ucl_object_iterate_full(hp, [it EXCEPT !.impl_it = hp[it.impl_it].next,
                                                    !.expl_it = 0], type)
         ELSE [ret |-> NULL, impl_it |-> it.impl_it, expl_it |-> it.expl_it]
    ELSE IF "UCL_ITERATE_EXPLICIT" \in type /\ hp[it.impl_it].type \in ContainerKinds
    THEN ucl_object_iterate_full(hp, [it EXCEPT !.impl_it = hp[it.impl_it].next], type)
    ELSE [ret |-> it.impl_it, impl_it |-> hp[it.impl_it].next, expl_it |-> it.expl_it]

\* a step of either iterator: [ref, impl_it, expl_it]
IterNone(iterator) == [ref |-> None, impl_it |-> iterator.impl_it, expl_it |-> iterator.expl_it]

iterate_containers_only(hp, object, iterator) ==
    IF iterator.inner = "null" \/ ~(is_array(object) \/ is_object(object)) THEN IterNone(iterator)
    ELSE LET r == ucl_object_iterate_full(hp, iterator, UCL_ITERATE_BOTH)
         IN [ref |-> from_c_ptr(hp, r.ret), impl_it |-> r.impl_it, expl_it |-> r.expl_it]

iterate_restarting(hp, object, iterator) ==
    IF iterator.inner = "null" THEN IterNone(iterator)
    ELSE LET r == ucl_object_iterate_full(hp, ucl_object_iterate_new(object.object), UCL_ITERATE_BOTH)
         IN [ref |-> from_c_ptr(hp, r.ret), impl_it |-> r.impl_it, expl_it |-> r.expl_it]

iterate(hp, object, iterator) ==
    IF iterator.inner = "null" THEN IterNone(iterator)
    ELSE LET obj_ptr == ucl_object_iterate_full(hp, iterator, UCL_ITERATE_BOTH)
         IN [ref |-> from_c_ptr(hp, obj_ptr.ret), impl_it |-> obj_ptr.impl_it,
             expl_it |-> obj_ptr.expl_it]

\* a started iterator: the ObjectRef it iterates, the engine's cursor, what
\* it borrows (src, slot), and its history: born, the insertions the session
\* had been asked for when it started; out, the nodes yielded so far; ended,
\* whether a step returned None; late, whether a step returned Some after
\* one that returned None.
NewIter(object, cursor, src, slot) ==
    [object |-> object, inner |-> cursor.inner, impl_it |-> cursor.impl_it,
     expl_it |-> cursor.expl_it, src |-> src, slot |-> slot, born |-> Len(parser.log),
     out |-> <<>>, ended |-> FALSE, late |-> FALSE]

\* Iter::new(&view), ObjectRef::iter, (&view).into_iter()
Iter_new(v) ==
    /\ views[v] # None
    /\ \E i \in 1..MaxIters :
          /\ iters[i] = NoIter
          /\ iters' = [iters EXCEPT ![i] = NewIter(views[v], ucl_object_iterate_new(as_ptr(views[v])), "views", v)]
          /\ cursors' = Allocated(cursors, i, ucl_object_iterate_new(as_ptr(views[v])))
    /\ obs' = [ObsOk("Iter_new") EXCEPT !.ptr = as_ptr(views[v]), !.kind = views[v].kind]
    /\ UNCHANGED <<heap, nalloc, parser, objects, views, made, conv, hooks>>

\* Iter::new when the engine returns no cursor
Iter_new_oom(v) ==
    /\ views[v] # None
    /\ \E i \in 1..MaxIters :
          /\ iters[i] = NoIter
          /\ iters' = [iters EXCEPT ![i] = NewIter(views[v], ucl_object_iterate_new_oom(as_ptr(views[v])), "views", v)]
          /\ cursors' = Allocated(cursors, i, ucl_object_iterate_new_oom(as_ptr(views[v])))
    /\ obs' = [ObsOk("Iter_new") EXCEPT !.ptr = as_ptr(views[v]), !.kind = views[v].kind]
    /\ UNCHANGED <<heap, nalloc, parser, objects, views, made, conv, hooks>>

\* the same through the Deref of an Object
Iter_new_deref(h) ==
    /\ objects[h] # None
    /\ \E i \in 1..MaxIters :
          /\ iters[i] = NoIter
          /\ iters' = [iters EXCEPT ![i] = NewIter(objects[h], ucl_object_iterate_new(as_ptr(objects[h])), "objects", h)]
          /\ cursors' = Allocated(cursors, i, ucl_object_iterate_new(as_ptr(objects[h])))
    /\ obs' = [ObsOk("Iter_new") EXCEPT !.ptr = as_ptr(objects[h]), !.kind = objects[h].kind]
    /\ UNCHANGED <<heap, nalloc, parser, objects, views, made, conv, hooks>>

\* IntoIter::new(view), view.into_iter(): the view moves into the iterator
IntoIter_new(v) ==
    /\ views[v] # None
    /\ \A i \in 1..MaxIters : ~(iters[i].src = "views" /\ iters[i].slot = v)
    /\ \E i \in 1..MaxIters :
          /\ iters[i] = NoIter
          /\ iters' = [iters EXCEPT ![i] = NewIter(views[v], ucl_object_iterate_new(as_ptr(views[v])), "own", 0)]
          /\ cursors' = Allocated(cursors, i, ucl_object_iterate_new(as_ptr(views[v])))
    /\ views' = [views EXCEPT ![v] = None]
    /\ obs' = [ObsOk("IntoIter_new") EXCEPT !.ptr = as_ptr(views[v]), !.kind = views[v].kind]
    /\ UNCHANGED <<heap, nalloc, parser, objects, made, conv, hooks>>

\* IntoIter::new when the engine returns no cursor
IntoIter_new_oom(v) ==
    /\ views[v] # None
    /\ \A i \in 1..MaxIters : ~(iters[i].src = "views" /\ iters[i].slot = v)
    /\ \E i \in 1..MaxIters :
          /\ iters[i] = NoIter
          /\ iters' = [iters EXCEPT ![i] = NewIter(views[v], ucl_object_iterate_new_oom(as_ptr(views[v])), "own", 0)]
          /\ cursors' = Allocated(cursors, i, ucl_object_iterate_new_oom(as_ptr(views[v])))
    /\ views' = [views EXCEPT ![v] = None]
    /\ obs' = [ObsOk("IntoIter_new") EXCEPT !.ptr = as_ptr(views[v]), !.kind = views[v].kind]
    /\ UNCHANGED <<heap, nalloc, parser, objects, made, conv, hooks>>

\* the nodes a step from this cursor reads
CursorLive(hp, it) == it.impl_it = NULL \/ hp[it.impl_it].st = "live"

StepOutcomes(hp, it, r) ==
    IF it.inner = "cursor" /\ ~CursorLive(hp, it)
    THEN {[r |-> r, ub |-> "stale"], [r |-> IterNone(it), ub |-> "garbage"],
          [r |-> IterNone(it), ub |-> "crash"]}
    ELSE {[r |-> r, ub |-> "no"]}

\* Iterator::next for Iter and IntoIter
next(i) ==
    /\ iters[i] # NoIter
    /\ Len(iters[i].out) < MaxOut
    /\ \E o \in StepOutcomes(heap, iters[i], iterate(heap, iters[i].object, iters[i])) :
          /\ iters' = [iters EXCEPT ![i] =
                [@ EXCEPT !.impl_it = o.r.impl_it, !.expl_it = o.r.expl_it,
                          !.out = IF o.r.ref # None THEN Append(@, o.r.ref.object) ELSE @,
                          !.ended = @ \/ o.r.ref = None,
                          !.late = @ \/ (iters[i].ended /\ o.r.ref # None)]]
          /\ obs' = [ObsNone EXCEPT !.op = "next", !.some = o.r.ref # None,
                                    !.ptr = o.r.ref.object, !.kind = o.r.ref.kind,
                                    !.engine = iters[i].inner = "cursor", !.ub = o.ub]
    /\ UNCHANGED <<heap, nalloc, parser, objects, views, made, conv, hooks, cursors>>

\* Drop for Iter and IntoIter without the call of the engine
Iter_drop_leaking(i) ==
    /\ iters[i] # NoIter
    /\ iters' = [iters EXCEPT ![i] = NoIter]
    /\ obs' = [ObsOk("Iter_drop") EXCEPT !.ptr = iters[i].object.object,
                                         !.engine = iters[i].inner = "cursor",
                                         !.list = iters[i].out,
                                         !.arg = IF iters[i].ended THEN "ended" ELSE "running"]
    /\ UNCHANGED <<heap, nalloc, parser, objects, views, made, conv, hooks, cursors>>

\* Drop for Iter and IntoIter: ucl_object_iterate_free(self.inner), whatever
\* the cursor is
Iter_drop(i) ==
    /\ iters[i] # NoIter
    /\ iters' = [iters EXCEPT ![i] = NoIter]
    /\ \E o \in ucl_object_iterate_free(cursors, i, iters[i].inner) :
          /\ cursors' = o.cursors
          /\ obs' = [ObsOk("Iter_drop") EXCEPT
                        !.ptr = iters[i].object.object,
                        !.engine = iters[i].inner = "cursor",
                        !.list = iters[i].out,
                        !.arg = IF iters[i].ended THEN "ended" ELSE "running",
                        !.ub = o.ub]
    /\ UNCHANGED <<heap, nalloc, parser, objects, views, made, conv, hooks>>

---------------------------------------------------------------------------
(* The view machine: a session, its root handle, and the views, reads and  *)
(* iterators made from them                                                *)

LookupKeys == {"game", "interval", "a_float", "nothing", "missing", "abc<NUL>d"}
Paths == {"game", "game.on", "missing", "abc<NUL>d"}

NextView ==
    \/ add_chunk_full(ChunkKinds, Priority_default, DEFAULT_DUPLICATE_STRATEGY)
    \/ get_object
    \/ \E self \in Refs : \E k \in LookupKeys : call_lookup(self, k)
    \/ \E self \in Refs : \E path \in Paths : call_lookup_path(self, path)
    \/ \E self \in Refs : call_as_string(self)
    \/ \E self \in Refs : call_as_i64(self)
    \/ \E self \in Refs : call_as_f64(self)
    \/ \E self \in Refs : call_as_time(self)
    \/ \E self \in Refs : call_as_bool(self)
    \/ \E self \in Refs : call_as_null(self)
    \/ \E self \in Refs : call_key(self)
    \/ \E self \in Refs : call_priority(self)
    \/ \E self \in Refs : call_kind(self)
    \/ \E self \in Refs : \E other \in Refs : call_partial_cmp(self, other)
    \/ \E v \in 1..MaxViews : ObjectRef_drop(v)
    \/ \E v \in 1..MaxViews : Iter_new(v)
    \/ \E h \in 1..MaxObjects : Iter_new_deref(h)
    \/ \E v \in 1..MaxViews : IntoIter_new(v)
    \/ \E i \in 1..MaxIters : next(i)
    \/ \E i \in 1..MaxIters : Iter_drop(i)
    \/ \E h \in 1..MaxObjects : Object_drop(h)
    \/ Parser_drop

SpecView == Init /\ [][NextView]_vars

---------------------------------------------------------------------------
(* Views against the lifetime of the tree *)

AccessorOps == {"as_string", "as_i64", "as_f64", "as_time", "as_bool", "as_null"}

\* C2: an accessor called on a view after the root Object and the Parser
\* have both been dropped reads a node that has not been freed, and its
\* result is the defined one.
C2_ViewOutlivesTree ==
    (obs.op \in AccessorOps /\ obs.engine /\ parser.state = "freed" /\ Live(objects) = {})
        => (heap[obs.self].st = "live" /\ obs.ub = "no")

ReadOps ==
    AccessorOps \cup {"lookup", "lookup_path", "key", "priority", "kind", "partial_cmp",
                      "next", "ObjectRef_drop"}

\* C3: lookup, lookup_path, key, priority, kind, the accessors, comparison,
\* an iterator step and the drop of a view leave every node as it was, its
\* count included; and a lookup that follows the drop of a view, for that
\* view's key on the live root, returns a view of the same node, still live.
C3_ReadsLeaveCounts ==
    [][ /\ obs'.op \in ReadOps => heap' = heap
        /\ (/\ obs'.op = "lookup"
            /\ obs'.last # NULL
            /\ obs'.err = "none"
            /\ heap[obs'.self].st = "live"
            /\ heap[obs'.self].type = "UCL_OBJECT"
            /\ heap[obs'.last].hk
            /\ obs'.arg = heap[obs'.last].key)
           => (/\ obs'.some
               /\ obs'.ptr = obs'.last
               /\ heap'[obs'.ptr].st = "live"
               /\ heap'[obs'.ptr].ref = heap[obs'.ptr].ref) ]_vars

\* a view of a child was dropped and the next statement looked its key up
\* again on the live root: the same node, its count still the parent's hold
C3_Witness ==
    /\ obs.op = "lookup"
    /\ obs.last # NULL
    /\ obs.some
    /\ obs.ptr = obs.last
    /\ heap[obs.ptr].st = "live"
    /\ heap[obs.ptr].ref = 1

\* C9: lookup and lookup_path on a node that is not of object kind return
\* None for every key, do not call the engine and do not panic.
C9_LookupOnNonObject ==
    (obs.op \in {"lookup", "lookup_path"} /\ obs.kind # "UCL_OBJECT")
        => (~obs.some /\ ~obs.engine /\ obs.err = "none" /\ obs.ub = "no")

\* a key with an interior NUL looked up on a boolean node
C9_Witness ==
    /\ obs.op = "lookup"
    /\ obs.kind = "UCL_BOOLEAN"
    /\ obs.arg \in NulStrings
    /\ ~obs.some

\* the kinds on which an accessor may return Some, as the claim has them
OwnKind(op) ==
    CASE op = "as_string" -> {"UCL_STRING"} [] op = "as_i64" -> {"UCL_INT"}
      [] op = "as_f64" -> {"UCL_FLOAT"} [] op = "as_bool" -> {"UCL_BOOLEAN"}
      [] op = "as_time" -> {"UCL_TIME"} [] op = "as_null" -> {"UCL_NULL"}

\* C10 as stated: each accessor returns Some only on a node of its own kind
\* (as_f64 only on float).
C10_AccessorOwnKindOnly ==
    (obs.op \in AccessorOps /\ obs.some) => obs.kind \in OwnKind(obs.op)

\* C10, amended: each accessor returns Some only on a node of its own kind,
\* where as_f64 has two kinds, float and time; on any other kind it returns
\* None.
C10_AccessorKinds ==
    (obs.op \in AccessorOps /\ obs.some)
        => obs.kind \in (IF obs.op = "as_f64" THEN {"UCL_FLOAT", "UCL_TIME"}
                         ELSE OwnKind(obs.op))

\* as_f64 called on the time node `interval` returned Some
C10_Witness ==
    /\ obs.op = "as_f64"
    /\ obs.kind = "UCL_TIME"
    /\ obs.some
    /\ obs.iv = 10

---------------------------------------------------------------------------
(* The Priority conversions, each applied to an input of its own type *)

\* the limbs and bytes the inputs are built from: the values around the
\* clamp (15, 16) and around the sign and the width of each type
LimbVals == {0, 1, 15, 16, TopBit - 1, TopBit, Limb - 1}
ByteVals == {0, 1, 15, 16, 127, 128, 255}

InputsOf(ty) ==
    CASE ty \in {"u8", "i8"} -> {<<b, 0, 0, 0>> : b \in ByteVals}
      [] ty \in {"u16", "i16"} -> {<<l, 0, 0, 0>> : l \in LimbVals}
      [] ty \in {"new", "u32", "i32"} -> {<<l1, l2, 0, 0>> : l1 \in LimbVals, l2 \in LimbVals}
      [] ty \in {"u64", "i64"} ->
            {<<l1, l2, l3, l4>> : l1 \in LimbVals, l2 \in LimbVals, l3 \in LimbVals, l4 \in LimbVals}

ConvTypes == {"new", "u8", "u16", "u32", "u64", "i8", "i16", "i32", "i64"}

InitPriority ==
    /\ heap = [id \in NodeIds |-> FreeSlot]
    /\ nalloc = 0
    /\ parser = NewParser
    /\ objects = [i \in 1..MaxObjects |-> None]
    /\ views = [i \in 1..MaxViews |-> None]
    /\ iters = [i \in 1..MaxIters |-> NoIter]
    /\ obs = ObsNone
    /\ made = 0
    /\ hooks = NoHooks
    /\ cursors = [i \in 1..MaxIters |-> "free"]
    /\ \E ty \in ConvTypes : \E bits \in InputsOf(ty) :
          conv = [ty |-> ty, bits |-> bits, out |-> 0, done |-> FALSE]

\* the conversion of the pending input, read back with as_c_uint
Converted(ty, out) ==
    /\ conv.ty = ty
    /\ ~conv.done
    /\ conv' = [conv EXCEPT !.out = as_c_uint(out), !.done = TRUE]
    /\ UNCHANGED <<heap, nalloc, parser, objects, views, iters, obs, made, hooks, cursors>>

convert_new == Converted("new", Priority_new(conv.bits))
convert_u8 == Converted("u8", From_u8(conv.bits))
convert_u16 == Converted("u16", From_u16(conv.bits))
convert_u32 == Converted("u32", From_u32(conv.bits))
convert_u64 == Converted("u64", From_u64(conv.bits))
convert_i8 == Converted("i8", From_i8(conv.bits))
convert_i16 == Converted("i16", From_i16(conv.bits))
convert_i32 == Converted("i32", From_i32(conv.bits))
convert_i64 == Converted("i64", From_i64(conv.bits))

NextPriority ==
    \/ convert_new
    \/ convert_u8
    \/ convert_u16
    \/ convert_u32
    \/ convert_u64
    \/ convert_i8
    \/ convert_i16
    \/ convert_i32
    \/ convert_i64

SpecPriority == InitPriority /\ [][NextPriority]_vars

\* the input as a number: whether it is negative, whether it is above 15
Negative(ty, bits) ==
    CASE ty = "i8" -> bits[1] >= 128
      [] ty = "i16" -> bits[1] >= TopBit
      [] ty = "i32" -> bits[2] >= TopBit
      [] ty = "i64" -> bits[4] >= TopBit
      [] OTHER -> FALSE

Above15(ty, bits) ==
    ~Negative(ty, bits) /\ (bits[1] > 15 \/ bits[2] > 0 \/ bits[3] > 0 \/ bits[4] > 0)

\* C4: every conversion maps an input above 15 to 15, a negative input to 0
\* and an input in 0..15 to itself.
C4_ConversionsClamp ==
    conv.done =>
        conv.out = (IF Above15(conv.ty, conv.bits) THEN 15
                    ELSE IF Negative(conv.ty, conv.bits) THEN 0
                    ELSE conv.bits[1])

---------------------------------------------------------------------------
(* The parse machine: chunks under every priority and duplicate strategy   *)

MaxPriority == 2
Priorities == 0..MaxPriority

ParseChunks == {ChunkSingle, ChunkOther, ChunkArray}

NextParse ==
    \/ \E chunk \in ParseChunks : \E p \in Priorities : \E strategy \in Strategies :
          add_chunk_full(chunk, p, strategy)
    \/ get_object
    \/ \E self \in Refs : \E k \in {"key", "array"} : call_lookup(self, k)
    \/ \E self \in Refs : call_as_string(self)
    \/ \E v \in 1..MaxViews : ObjectRef_drop(v)

SpecParse == Init /\ [][NextParse]_vars

\* the insertions of key k asked of the session, in order
InsertionsOf(k) == SelectSeq(parser.log, LAMBDA e : e.key = k)

\* key k was inserted exactly twice, both calls returned Ok, at two different
\* priorities
TwoPriorities(k) ==
    /\ Len(InsertionsOf(k)) = 2
    /\ InsertionsOf(k)[1].ok /\ InsertionsOf(k)[2].ok
    /\ InsertionsOf(k)[1].priority # InsertionsOf(k)[2].priority

\* of the two insertions of k, the one of higher priority
Higher(k) ==
    IF InsertionsOf(k)[1].priority > InsertionsOf(k)[2].priority
    THEN InsertionsOf(k)[1] ELSE InsertionsOf(k)[2]

\* the node holds the inserted value and nothing is chained after it
HoldsAlone(n, e) ==
    /\ heap[n].st = "live"
    /\ heap[n].type = e.type /\ heap[n].iv = e.iv /\ heap[n].sv = e.sv
    /\ heap[n].next = NULL
    /\ Len(heap[n].elems) = (IF e.type = "UCL_ARRAY" THEN 3 ELSE 0)

---------------------------------------------------------------------------
(* The iteration machine: a session under the default strategy, views of   *)
(* its tree and iterators over them                                        *)

IterChunks == {ChunkImplicit, ChunkSingle, ChunkOther, ChunkArray}

NextIter ==
    \/ \E chunk \in IterChunks :
          add_chunk_full(chunk, Priority_default, DEFAULT_DUPLICATE_STRATEGY)
    \/ get_object
    \/ \E self \in Refs : \E k \in {"key", "array"} : call_lookup(self, k)
    \/ \E v \in 1..MaxViews : ObjectRef_drop(v)
    \/ \E v \in 1..MaxViews : Iter_new(v)
    \/ \E h \in 1..MaxObjects : Iter_new_deref(h)
    \/ \E v \in 1..MaxViews : IntoIter_new(v)
    \/ \E i \in 1..MaxIters : next(i)
    \/ \E i \in 1..MaxIters : Iter_drop(i)

SpecIter == Init /\ [][NextIter]_vars

IsPrefix(s, t) == Len(s) <= Len(t) /\ \A j \in 1..Len(s) : s[j] = t[j]

\* the iterator in slot i runs over the node the root holds under key k, and
\* the session was asked for no insertion since it started
IteratesKey(i, k) ==
    /\ iters[i].inner = "cursor"
    /\ parser.top # NULL
    /\ as_ptr(iters[i].object) = ucl_object_lookup(heap, parser.top, k)
    /\ iters[i].born = Len(parser.log)

\* the values of the nodes the iterator in slot i has yielded
Yielded(i) == [j \in 1..Len(iters[i].out) |-> heap[iters[i].out[j]].sv]

\* the iterator in slot i has so far yielded the nodes of the insertions of
\* k, in their order, and nothing else, and yields nothing after a None
YieldsInsertions(i, k) ==
    LET es == InsertionsOf(k)
        out == iters[i].out
    IN /\ Len(out) <= Len(es)
       /\ \A j \in 1..Len(out) :
             /\ heap[out[j]].hk /\ heap[out[j]].key = k
             /\ heap[out[j]].type = es[j].type
             /\ heap[out[j]].iv = es[j].iv /\ heap[out[j]].sv = es[j].sv
       /\ iters[i].ended => Len(out) = Len(es)
       /\ ~iters[i].late

\* key k was inserted twice at one priority, the second time under Append
TwiceAppended(k) ==
    /\ Len(InsertionsOf(k)) = 2
    /\ InsertionsOf(k)[1].priority = InsertionsOf(k)[2].priority
    /\ InsertionsOf(k)[2].strategy = "UCL_DUPLICATE_APPEND"

\* C6 as stated: when a key was inserted twice at one priority under Append,
\* iterating the node lookup(key) returns yields the two inserted values in
\* insertion order and then None.
C6_ImplicitArrayIteration ==
    \A i \in 1..MaxIters : \A k \in Keys :
        (IteratesKey(i, k) /\ TwiceAppended(k)) => YieldsInsertions(i, k)

\* C6, amended: the same, when the inserted values are not arrays or objects.
C6_ImplicitArrayOfScalars ==
    \A i \in 1..MaxIters : \A k \in Keys :
        (IteratesKey(i, k) /\ TwiceAppended(k) /\ InsertionsOf(k)[1].type \in ScalarKinds
                           /\ InsertionsOf(k)[2].type \in ScalarKinds)
            => YieldsInsertions(i, k)

\* an iterator over `key`, inserted as value1 then value2, has ended after
\* yielding two nodes
C6_Witness ==
    \E i \in 1..MaxIters :
        /\ IteratesKey(i, "key")
        /\ Len(InsertionsOf("key")) = 2
        /\ iters[i].ended
        /\ Yielded(i) = <<"value1", "value2">>

\* C7: iterating a node whose key was inserted exactly once, with a scalar
\* value, yields the node itself, with that key and value, then None; the
\* node keeps the scalar kind.
C7_SingleScalarIteration ==
    \A i \in 1..MaxIters : \A k \in Keys :
        (/\ IteratesKey(i, k)
         /\ Len(InsertionsOf(k)) = 1
         /\ InsertionsOf(k)[1].type \in ScalarKinds)
        => (/\ IsPrefix(iters[i].out, <<as_ptr(iters[i].object)>>)
            /\ iters[i].ended => Len(iters[i].out) = 1
            /\ ~iters[i].late
            /\ heap[as_ptr(iters[i].object)].key = k
            /\ heap[as_ptr(iters[i].object)].sv = InsertionsOf(k)[1].sv
            /\ heap[as_ptr(iters[i].object)].type = InsertionsOf(k)[1].type
            /\ iters[i].object.kind = InsertionsOf(k)[1].type)

\* an IntoIter over `key`, inserted once, has ended after yielding the node
C7_Witness ==
    \E i \in 1..MaxIters :
        /\ IteratesKey(i, "key")
        /\ Len(InsertionsOf("key")) = 1
        /\ iters[i].ended
        /\ iters[i].out = <<as_ptr(iters[i].object)>>
        /\ iters[i].src = "own"

\* whether s holds every element of t exactly once and in the order of t
EachOnceInOrder(s, t) ==
    /\ \A j \in 1..Len(t) : Cardinality({m \in 1..Len(s) : s[m] = t[j]}) = 1
    /\ \A j1 \in 1..Len(t) : \A j2 \in 1..Len(t) :
          j1 < j2 => (CHOOSE m \in 1..Len(s) : s[m] = t[j1]) < (CHOOSE m \in 1..Len(s) : s[m] = t[j2])

\* C8: an Iter or IntoIter over an array or object node yields each child
\* once, in insertion order, an entry of an object with its key; a step after
\* a None returns None.  Where no same-key sibling is chained after the node
\* the children are all that is yielded.
C8_ContainerIteration ==
    \A i \in 1..MaxIters :
        LET n == as_ptr(iters[i].object) IN
        (/\ iters[i].inner = "cursor"
         /\ iters[i].object.kind \in ContainerKinds
         /\ iters[i].born = Len(parser.log))
        => (/\ ~iters[i].late
            /\ iters[i].ended => EachOnceInOrder(iters[i].out, heap[n].elems)
            /\ heap[n].next = NULL =>
                  (/\ IsPrefix(iters[i].out, heap[n].elems)
                   /\ iters[i].ended => iters[i].out = heap[n].elems)
            /\ iters[i].object.kind = "UCL_OBJECT" =>
                  \A j \in 1..Len(iters[i].out) : heap[iters[i].out[j]].hk)

\* an IntoIter over the array [1, 2, 3] has ended after yielding its three
\* elements
C8_Witness ==
    \E i \in 1..MaxIters :
        /\ iters[i].inner = "cursor"
        /\ iters[i].object.kind = "UCL_ARRAY"
        /\ iters[i].src = "own"
        /\ iters[i].ended
        /\ Len(iters[i].out) = 3
        /\ [j \in 1..3 |-> heap[iters[i].out[j]].iv] = <<1, 2, 3>>

---------------------------------------------------------------------------
(* The value machine: handles made from native literals, read back through *)
(* Deref and compared with one another                                     *)

MaxValues == 3

InitValue ==
    /\ heap = [id \in NodeIds |-> FreeSlot]
    /\ nalloc = 0
    /\ parser = NewParser
    /\ objects = [i \in 1..MaxValues |-> None]
    /\ views = [i \in 1..MaxViews |-> None]
    /\ iters = [i \in 1..MaxIters |-> NoIter]
    /\ obs = ObsNone
    /\ made = 0
    /\ conv = ConvIdle
    /\ hooks = NoHooks
    /\ cursors = [i \in 1..MaxIters |-> "free"]

\* the handles in scope, each read as an ObjectRef through Deref
Owned == {objects[h] : h \in DOMAIN objects} \ {None}

NextValue ==
    \/ \E source \in Literals : Object_from(source)
    \/ \E self \in Owned : call_as_string(self)
    \/ \E self \in Owned : call_as_i64(self)
    \/ \E self \in Owned : call_as_f64(self)
    \/ \E self \in Owned : call_as_bool(self)
    \/ \E self \in Owned : call_kind(self)
    \/ \E self \in Owned : \E other \in Owned : call_partial_cmp(self, other)
    \/ \E self \in Owned : \E other \in Owned : call_eq(self, other)
    \/ \E h \in DOMAIN objects : Object_drop(h)

SpecValue == InitValue /\ [][NextValue]_vars

\* the accessor that matches the kind of a literal
Matching(type, hp, self) ==
    CASE type = "UCL_BOOLEAN" -> as_bool(hp, self)
      [] type = "UCL_INT" -> as_i64(hp, self)
      [] type = "UCL_FLOAT" -> as_f64(hp, self)
      [] type = "UCL_STRING" -> as_string(hp, self)

MatchingOp(type) ==
    CASE type = "UCL_BOOLEAN" -> "as_bool" [] type = "UCL_INT" -> "as_i64"
      [] type = "UCL_FLOAT" -> "as_f64" [] type = "UCL_STRING" -> "as_string"
      [] OTHER -> "none"

---------------------------------------------------------------------------
(* deep_copy, under the ownership machine *)

\* the nodes of the tree below n, n included
Tree(hp, n) == SeqToSet(SubtreeSeq(hp, <<n>>))

\* the handles of a table that point at node n
HandlesTo(table, n) == {h \in DOMAIN table : table[h].object = n}

\* C12: deep_copy returns an owning handle whose node compares equal to the
\* source, is another node, shares no node with the source and has a count
\* of its own, 1, the source being left as it was; whatever handle or
\* session is dropped, a copy that still has a handle stays alive with its
\* whole tree; and dropping a handle of the copy leaves every node outside
\* the copy, the source and its count included, as it was.
C12_DeepCopyIndependent ==
    [][ /\ obs'.op = "deep_copy" =>
           /\ HandlesTo(objects', obs'.ptr) # {}
           /\ ucl_object_compare(heap', obs'.self, obs'.ptr) = 0
           /\ obs'.ptr # obs'.self
           /\ Tree(heap', obs'.ptr) \cap Tree(heap', obs'.self) = {}
           /\ heap'[obs'.ptr].ref = 1
           /\ \A n \in NodeIds : heap[n].st # "unused" => heap'[n] = heap[n]
        /\ obs'.op \in {"Object_drop", "Parser_drop"} =>
           \A c \in NodeIds :
              (heap[c].orig # NULL /\ HandlesTo(objects', c) # {}) =>
                 \A n \in Tree(heap, c) : heap'[n].st = "live"
        /\ (obs'.op = "Object_drop" /\ heap[obs'.ptr].orig # NULL) =>
           \A n \in NodeIds \ Tree(heap, obs'.ptr) : heap'[n] = heap[n] ]_vars

\* a copy of the root is still held, alive with its children, after the last
\* handle on the source and the session have gone and the source was freed
C12_Witness ==
    \E h \in DOMAIN objects :
       /\ objects[h] # None
       /\ heap[objects[h].object].orig # NULL
       /\ heap[objects[h].object].type = "UCL_OBJECT"
       /\ heap[objects[h].object].st = "live"
       /\ heap[objects[h].object].elems # <<>>
       /\ heap[heap[objects[h].object].orig].st = "freed"
       /\ parser.state = "freed"

---------------------------------------------------------------------------
(* Ordering of nodes, under the value machine *)

Leq(a, b) == partial_cmp(heap, a, b) \in {"Less", "Equal"}

Reverse(ordering) ==
    CASE ordering = "Less" -> "Greater" [] ordering = "Greater" -> "Less"
      [] OTHER -> ordering

\* every two nodes compare, without a panic; nodes of different kinds are
\* ordered by their kinds alone (an integer below a float, a string never
\* equal to an integer); eq holds exactly when the comparison is Equal; and
\* swapping the operands reverses the result
KindBeforeValue ==
    \A a \in Owned : \A b \in Owned :
       /\ partial_cmp(heap, a, b) \in {"Less", "Equal", "Greater"}
       /\ kind(a) # kind(b) =>
             /\ partial_cmp(heap, a, b) # "Equal"
             /\ partial_cmp(heap, a, b) = "Less" <=> TypeRank(kind(a)) < TypeRank(kind(b))
       /\ (kind(a) = "UCL_INT" /\ kind(b) = "UCL_FLOAT") => partial_cmp(heap, a, b) = "Less"
       /\ (kind(a) = "UCL_STRING" /\ kind(b) = "UCL_INT") => ~eq(heap, a, b)
       /\ eq(heap, a, b) <=> partial_cmp(heap, a, b) = "Equal"
       /\ partial_cmp(heap, b, a) = Reverse(partial_cmp(heap, a, b))

\* a <= b and b <= c give a <= c
Transitive ==
    \A a \in Owned : \A b \in Owned : \A c \in Owned :
       (Leq(a, b) /\ Leq(b, c)) => Leq(a, c)

---------------------------------------------------------------------------
(* raw/object.rs: typed extraction, FromObject<ObjectRef> for T.  A result *)
(* is [ok, err, key, actual, wanted, bits, iv, sv, list, opt, node]: Ok    *)
(* with the value (bits for an integer, iv for a number of tenths or a     *)
(* boolean, sv for a string, list for a Vec), or Err with the variant of   *)
(* ObjectError, its fields, and the node that failed.                      *)

\* the bit pattern of an integer that fits iv
ToBits64(n) ==
    IF n >= 0 THEN <<n % Limb, (n \div Limb) % Limb, 0, 0>>
    ELSE <<(Limb - 1) - ((-n - 1) % Limb), (Limb - 1) - (((-n - 1) \div Limb) % Limb),
           Limb - 1, Limb - 1>>

\* the int64_t an integer node holds
int64_of(hp, ptr) == IF hp[ptr].wide # <<>> THEN hp[ptr].wide ELSE ToBits64(hp[ptr].iv)

\* a < b, for two 64-bit patterns read as signed integers
Lt64(a, b) ==
    LET ka == <<(a[4] + TopBit) % Limb, a[3], a[2], a[1]>>
        kb == <<(b[4] + TopBit) % Limb, b[3], b[2], b[1]>>
    IN \E i \in 1..4 : ka[i] < kb[i] /\ \A j \in 1..(i - 1) : ka[j] = kb[j]

IntTypes == {"i8", "i16", "i32", "u8", "u16", "u32", "u64"}

\* T::MIN as i64 and T::MAX as i64 (u64::MAX is above every i64)
MinOf(T) ==
    CASE T = "i8" -> <<Limb - 128, Limb - 1, Limb - 1, Limb - 1>>
      [] T = "i16" -> <<TopBit, Limb - 1, Limb - 1, Limb - 1>>
      [] T = "i32" -> <<0, TopBit, Limb - 1, Limb - 1>>
      [] OTHER -> <<0, 0, 0, 0>>
MaxOf(T) ==
    CASE T = "i8" -> <<127, 0, 0, 0>>
      [] T = "u8" -> <<255, 0, 0, 0>>
      [] T = "i16" -> <<TopBit - 1, 0, 0, 0>>
      [] T = "u16" -> <<Limb - 1, 0, 0, 0>>
      [] T = "i32" -> <<Limb - 1, TopBit - 1, 0, 0>>
      [] T = "u32" -> <<Limb - 1, Limb - 1, 0, 0>>
      [] OTHER -> <<Limb - 1, Limb - 1, Limb - 1, TopBit - 1>>

\* `val as T`: the low bits of the pattern, to the width of T
as_T(T, val) ==
    CASE T \in {"i8", "u8"} -> <<val[1] % 256, 0, 0, 0>>
      [] T \in {"i16", "u16"} -> <<val[1], 0, 0, 0>>
      [] T \in {"i32", "u32"} -> <<val[1], val[2], 0, 0>>
      [] OTHER -> val

NoResult ==
    [ok |-> FALSE, err |-> "none", key |-> "", actual |-> "none", wanted |-> "none",
     bits |-> <<>>, iv |-> 0, sv |-> "", list |-> <<>>, opt |-> "", node |-> NULL]

Ok(bits, iv, sv) == [NoResult EXCEPT !.ok = TRUE, !.bits = bits, !.iv = iv, !.sv = sv]

unwrap_or_default(option) == IF option.some THEN option.sv ELSE ""

\* ObjectError::WrongType, leaving the key out
WrongType_keyless(hp, value, wanted_type) ==
    [NoResult EXCEPT !.err = "WrongType", !.actual = value.kind, !.wanted = wanted_type,
                     !.node = value.object]

\* ObjectError::WrongType { key, actual_type, wanted_type }
WrongType(hp, value, wanted_type) ==
    [NoResult EXCEPT !.err = "WrongType", !.key = unwrap_or_default(key(hp, value)),
                     !.actual = value.kind, !.wanted = wanted_type,
                     !.node = value.object]

\* ObjectError::IntConversionError(TryFromIntError): the error of the
\* standard library, which carries nothing of the node
IntConversionError(value) ==
    [NoResult EXCEPT !.err = "IntConversionError", !.node = value.object]

\* ObjectError::AddrParseError(AddrParseError)
AddrParseError(value) ==
    [NoResult EXCEPT !.err = "AddrParseError", !.node = value.object]

\* val.try_into().map_err(ObjectError::from), with the cast in place of the
\* checked conversion
try_into_wrapping(T, val, value) == Ok(as_T(T, val), 0, "")

\* val.try_into().map_err(ObjectError::from): TryFrom<i64> for T checks the
\* range of T and then casts
try_into(T, val, value) ==
    IF Lt64(val, MinOf(T)) \/ (T # "u64" /\ Lt64(MaxOf(T), val))
    THEN IntConversionError(value)
    ELSE Ok(as_T(T, val), 0, "")

\* the strings that parse as a socket address
SocketAddrs == {"127.0.0.1:80"}

\* ret.parse().map_err(ObjectError::from)
parse(ret, value) ==
    IF ret \in SocketAddrs THEN Ok(<<>>, 0, ret) ELSE AddrParseError(value)

BaseTypes ==
    IntTypes \cup {"i64", "f64", "bool", "()", "String", "PathBuf", "SocketAddr", "Duration"}

\* FromObject<ObjectRef> for T, T one of BaseTypes
try_from(T, hp, value) ==
    CASE T = "i64" ->
            IF as_i64(hp, value).some THEN Ok(int64_of(hp, value.object), 0, "")
            ELSE WrongType(hp, value, "UCL_INT")
      [] T \in IntTypes ->
            IF as_i64(hp, value).some THEN try_into(T, int64_of(hp, value.object), value)
            ELSE WrongType(hp, value, "UCL_INT")
      [] T = "f64" ->
            IF as_f64(hp, value).some THEN Ok(<<>>, as_f64(hp, value).iv, "")
            ELSE WrongType(hp, value, "UCL_FLOAT")
      [] T = "bool" ->
            IF as_bool(hp, value).some THEN Ok(<<>>, as_bool(hp, value).iv, "")
            ELSE WrongType(hp, value, "UCL_BOOLEAN")
      [] T = "()" ->
            IF is_null(value) THEN Ok(<<>>, 0, "")
            ELSE WrongType(hp, value, "UCL_NULL")
      [] T \in {"String", "PathBuf"} ->
            IF as_string(hp, value).some THEN Ok(<<>>, 0, as_string(hp, value).sv)
            ELSE WrongType(hp, value, "UCL_STRING")
      [] T = "SocketAddr" ->
            IF as_string(hp, value).some THEN parse(as_string(hp, value).sv, value)
            ELSE WrongType(hp, value, "UCL_STRING")
      [] T = "Duration" ->
            IF as_time(hp, value).some
            THEN (IF as_time(hp, value).iv < 0
                  THEN [NoResult EXCEPT !.err = "panic", !.node = value.object]
                  ELSE Ok(<<>>, as_time(hp, value).iv, ""))
            ELSE WrongType(hp, value, "UCL_TIME")

\* ObjectRef::iter
iter(self) == ucl_object_iterate_new(as_ptr(self))

RECURSIVE Drain(_, _, _)
\* what an iterator yields from a cursor on, until it returns None
Drain(hp, object, it) ==
    LET r == iterate(hp, object, it)
    IN IF r.ref = None THEN <<>>
       ELSE <<r.ref>> \o Drain(hp, object, [it EXCEPT !.impl_it = r.impl_it,
                                                      !.expl_it = r.expl_it])

\* the value of a result, as an element of a list
ValueOf(r) == [bits |-> r.bits, iv |-> r.iv, sv |-> r.sv]

\* FromObject<ObjectRef> for Vec<T>, returning the error of the last element
\* that fails
Vec_try_from_last(T, hp, value) ==
    LET ret == [i \in 1..Len(Drain(hp, value, iter(value))) |->
                   try_from(T, hp, Drain(hp, value, iter(value))[i])]
        bad == {i \in 1..Len(ret) : ~ret[i].ok}
    IN IF bad # {} THEN ret[CHOOSE i \in bad : \A j \in bad : j <= i]
       ELSE [NoResult EXCEPT !.ok = TRUE, !.list = [i \in 1..Len(ret) |-> ValueOf(ret[i])]]

\* FromObject<ObjectRef> for Vec<T>: every element is converted, then the
\* first Err found is returned, or the list of the values
Vec_try_from(T, hp, value) ==
    LET ret == [i \in 1..Len(Drain(hp, value, iter(value))) |->
                   try_from(T, hp, Drain(hp, value, iter(value))[i])]
        bad == {i \in 1..Len(ret) : ~ret[i].ok}
    IN IF bad # {} THEN ret[CHOOSE i \in bad : \A j \in bad : i <= j]
       ELSE [NoResult EXCEPT !.ok = TRUE, !.list = [i \in 1..Len(ret) |-> ValueOf(ret[i])]]

\* FromObject<ObjectRef> for Option<T>, taking a failure of T for None
Option_try_from_lenient(T, hp, value) ==
    IF try_from(T, hp, value).ok THEN [try_from(T, hp, value) EXCEPT !.opt = "Some"]
    ELSE [NoResult EXCEPT !.ok = TRUE, !.opt = "None"]

\* FromObject<ObjectRef> for Option<T>: (T::try_from(value)).map(Some)
Option_try_from(T, hp, value) ==
    IF try_from(T, hp, value).ok THEN [try_from(T, hp, value) EXCEPT !.opt = "Some"]
    ELSE try_from(T, hp, value)

\* an extraction moves the view of a live node into try_from
Extracted(op, T, v, r) ==
    /\ views[v] # None
    /\ heap[views[v].object].st = "live"
    /\ \A i \in 1..MaxIters : ~(iters[i].src = "views" /\ iters[i].slot = v)
    /\ obs' = [ObsNone EXCEPT !.op = op, !.arg = T, !.some = r.ok, !.err = r.err,
                              !.key = r.key, !.actual = r.actual, !.wanted = r.wanted,
                              !.bits = r.bits, !.iv = r.iv, !.sv = r.sv, !.list = r.list,
                              !.opt = r.opt, !.ptr = r.node, !.self = views[v].object,
                              !.kind = views[v].kind, !.engine = TRUE]
    /\ views' = [views EXCEPT ![v] = None]
    /\ UNCHANGED <<heap, nalloc, parser, objects, iters, made, conv, hooks, cursors>>

call_try_from(T, v) == Extracted("try_from", T, v, try_from(T, heap, views[v]))
call_Vec_try_from(T, v) == Extracted("Vec_try_from", T, v, Vec_try_from(T, heap, views[v]))
call_Option_try_from(T, v) ==
    Extracted("Option_try_from", T, v, Option_try_from(T, heap, views[v]))

---------------------------------------------------------------------------
(* The extraction machine: a session, its root handle, a view looked up on *)
(* it and the typed extractions of that view                               *)

\* the integers around the bounds of every target type
Int64s ==
    {ToBits64(n) : n \in {-32769, -32768, -129, -128, -1, 0, 1, 127, 128, 255, 256,
                          32767, 32768, 65535, 65536}}
    \cup {<<Limb - 1, TopBit - 1, 0, 0>>, <<0, TopBit, 0, 0>>,
          <<0, TopBit, Limb - 1, Limb - 1>>, <<Limb - 1, TopBit - 1, Limb - 1, Limb - 1>>,
          <<Limb - 1, Limb - 1, 0, 0>>, <<0, 0, 1, 0>>,
          <<Limb - 1, Limb - 1, Limb - 1, TopBit - 1>>, <<0, 0, 0, TopBit>>}

\* an_integer = <the integer>
ChunkNumber(bits) ==
    [entries |-> <<[key |-> "an_integer", type |-> "UCL_INT", iv |-> 0, sv |-> "",
                    items |-> <<>>, wide |-> bits]>>,
     complete |-> TRUE]
\* mixed = [1, 300, true]
ChunkMixed ==
    [entries |-> <<Entry("mixed", "UCL_ARRAY", 0, "",
                         <<Item("UCL_INT", 1, ""), Item("UCL_INT", 300, ""),
                           Item("UCL_BOOLEAN", 1, "")>>)>>,
     complete |-> TRUE]
\* addr = "127.0.0.1:80"
ChunkAddr ==
    [entries |-> <<Entry("addr", "UCL_STRING", 0, "127.0.0.1:80", <<>>)>>, complete |-> TRUE]

\* interval = -1s
ChunkPast ==
    [entries |-> <<Entry("interval", "UCL_TIME", -10, "", <<>>)>>, complete |-> TRUE]

ExtractChunks ==
    {ChunkNumber(bits) : bits \in Int64s}
    \cup {ChunkKinds, ChunkArray, ChunkMixed, ChunkAddr, ChunkImplicit, ChunkSingle,
          ChunkPast}

ExtractKeys ==
    {"an_integer", "a_float", "game", "interval", "test_string", "nothing", "array",
     "mixed", "addr", "key"}

\* the session is fed one document
NextExtract ==
    \/ \E chunk \in ExtractChunks :
          parser.chunks = 0
          /\ add_chunk_full(chunk, Priority_default, DEFAULT_DUPLICATE_STRATEGY)
    \/ get_object
    \/ \E h \in 1..MaxObjects : \E k \in ExtractKeys :
          objects[h] # None /\ call_lookup(objects[h], k)
    \/ \E T \in BaseTypes : \E v \in 1..MaxViews : call_try_from(T, v)
    \/ \E T \in BaseTypes : \E v \in 1..MaxViews : call_Vec_try_from(T, v)
    \/ \E T \in BaseTypes : \E v \in 1..MaxViews : call_Option_try_from(T, v)

SpecExtract == Init /\ [][NextExtract]_vars

---------------------------------------------------------------------------
(* Narrowing integer extraction *)

\* the 64-bit value is one of the values of T
Fits(T, b) ==
    CASE T = "i8" -> \/ (b[1] < 128 /\ b[2] = 0 /\ b[3] = 0 /\ b[4] = 0)
                     \/ (b[1] >= Limb - 128 /\ b[2] = Limb - 1 /\ b[3] = Limb - 1
                         /\ b[4] = Limb - 1)
      [] T = "u8" -> b[1] < 256 /\ b[2] = 0 /\ b[3] = 0 /\ b[4] = 0
      [] T = "i16" -> \/ (b[1] < TopBit /\ b[2] = 0 /\ b[3] = 0 /\ b[4] = 0)
                      \/ (b[1] >= TopBit /\ b[2] = Limb - 1 /\ b[3] = Limb - 1
                          /\ b[4] = Limb - 1)
      [] T = "u16" -> b[2] = 0 /\ b[3] = 0 /\ b[4] = 0
      [] T = "i32" -> \/ (b[2] < TopBit /\ b[3] = 0 /\ b[4] = 0)
                      \/ (b[2] >= TopBit /\ b[3] = Limb - 1 /\ b[4] = Limb - 1)
      [] T = "u32" -> b[3] = 0 /\ b[4] = 0
      [] T = "u64" -> b[4] < TopBit

\* the value of a T, as a 64-bit integer
Widen(T, v) ==
    CASE T = "i8" /\ v[1] >= 128 -> <<v[1] + Limb - 256, Limb - 1, Limb - 1, Limb - 1>>
      [] T = "i16" /\ v[1] >= TopBit -> <<v[1], Limb - 1, Limb - 1, Limb - 1>>
      [] T = "i32" /\ v[2] >= TopBit -> <<v[1], v[2], Limb - 1, Limb - 1>>
      [] OTHER -> v

\* C14: extracting i8, i16, i32, u8, u16, u32 or u64 from an integer node
\* returns Ok(v), v equal to the 64-bit value of the node, exactly when that
\* value fits the type, and Err(IntConversionError) otherwise; from a node of
\* any other kind it returns Err(WrongType) whose wanted type is UCL_INT.
C14_NarrowingExtraction ==
    (obs.op = "try_from" /\ obs.arg \in IntTypes) =>
        IF heap[obs.self].type = "UCL_INT"
        THEN IF Fits(obs.arg, int64_of(heap, obs.self))
             THEN obs.some /\ Widen(obs.arg, obs.bits) = int64_of(heap, obs.self)
             ELSE ~obs.some /\ obs.err = "IntConversionError"
        ELSE ~obs.some /\ obs.err = "WrongType" /\ obs.wanted = "UCL_INT"

\* 2^32 does not fit u32
C14_Witness ==
    /\ obs.op = "try_from" /\ obs.arg = "u32"
    /\ heap[obs.self].type = "UCL_INT"
    /\ int64_of(heap, obs.self) = <<0, 0, 1, 0>>
    /\ obs.err = "IntConversionError"

---------------------------------------------------------------------------
(* Errors of extraction *)

ExtractOps == {"try_from", "Vec_try_from", "Option_try_from"}

Failed == obs.op \in ExtractOps /\ ~obs.some /\ obs.err # "panic"

\* the kind an extraction into T wants
Wanted(T) ==
    CASE T \in IntTypes \cup {"i64"} -> "UCL_INT"
      [] T = "f64" -> "UCL_FLOAT"
      [] T = "bool" -> "UCL_BOOLEAN"
      [] T = "()" -> "UCL_NULL"
      [] T = "Duration" -> "UCL_TIME"
      [] OTHER -> "UCL_STRING"

\* the kinds an extraction into T takes a value from
Accepts(T) == IF T = "f64" THEN {"UCL_FLOAT", "UCL_TIME"} ELSE {Wanted(T)}

\* the error names the key of the node that failed, its kind and the kind wanted
Identifies ==
    /\ obs.err = "WrongType"
    /\ obs.key = (IF heap[obs.ptr].hk THEN heap[obs.ptr].key ELSE "")
    /\ obs.actual = heap[obs.ptr].type
    /\ obs.wanted = Wanted(obs.arg)

\* C15: every failed typed extraction (wrong kind, integer out of range,
\* address that does not parse) returns an error that identifies the key of
\* the offending node ("" when it has none), its actual kind and the kind
\* that was wanted.
C15_EveryFailureIdentifies == Failed => Identifies

\* C15, amended: an extraction that fails on a node of the wrong kind returns
\* WrongType with the key of that node ("" when it has none), its kind and
\* the kind wanted; an integer out of range returns IntConversionError and
\* an address that does not parse returns AddrParseError, and these two
\* carry neither key nor kind.
C15_WrongKindIdentifies ==
    Failed =>
        IF heap[obs.ptr].type \notin Accepts(obs.arg) THEN Identifies
        ELSE /\ obs.key = "" /\ obs.actual = "none" /\ obs.wanted = "none"
             /\ IF obs.arg \in IntTypes
                THEN obs.err = "IntConversionError"
                     /\ ~Fits(obs.arg, int64_of(heap, obs.ptr))
                ELSE obs.arg = "SocketAddr" /\ obs.err = "AddrParseError"
                     /\ heap[obs.ptr].sv \notin SocketAddrs

\* an element of an array, which has no key, is of the wrong kind
C15_Witness ==
    /\ Failed /\ obs.op = "Vec_try_from"
    /\ obs.err = "WrongType" /\ obs.key = "" /\ ~heap[obs.ptr].hk
    /\ obs.actual = "UCL_INT" /\ obs.wanted = "UCL_BOOLEAN"

---------------------------------------------------------------------------
(* Lists and options *)

RECURSIVE Walked(_, _)
\* the children of the containers and the scalars of a chain, in order
Walked(hp, chain) ==
    IF chain = <<>> THEN <<>>
    ELSE (IF hp[Head(chain)].type \in ContainerKinds THEN hp[Head(chain)].elems
          ELSE <<Head(chain)>>) \o Walked(hp, Tail(chain))

\* C16: extracting Vec<T> walks the node with the iteration protocol and
\* returns Ok(list) with one converted element per yielded child, in
\* iteration order, when every element converts; otherwise Err with the
\* error of the first element that fails; a scalar node with nothing chained
\* to it gives a list of one element.
C16_VecExtraction ==
    obs.op = "Vec_try_from" =>
        LET ys == Walked(heap, ChainOf(heap, obs.self))
            rs == [i \in 1..Len(ys) |-> try_from(obs.arg, heap, from_c_ptr(heap, ys[i]))]
        IN /\ IF \A i \in 1..Len(ys) : rs[i].ok
              THEN /\ obs.some
                   /\ Len(obs.list) = Len(ys)
                   /\ \A i \in 1..Len(ys) : obs.list[i] = ValueOf(rs[i])
              ELSE /\ ~obs.some
                   /\ \E i \in 1..Len(ys) :
                         /\ ~rs[i].ok
                         /\ \A j \in 1..(i - 1) : rs[j].ok
                         /\ obs.ptr = ys[i]
                         /\ obs.err = rs[i].err /\ obs.key = rs[i].key
                         /\ obs.actual = rs[i].actual /\ obs.wanted = rs[i].wanted
           /\ (heap[obs.self].type \in ScalarKinds /\ heap[obs.self].next = NULL
               /\ try_from(obs.arg, heap, from_c_ptr(heap, obs.self)).ok) =>
                  Len(obs.list) = 1

\* [1, 300, true] as Vec<u8>: 300 is the first element to fail, true the last
C16_Witness ==
    /\ obs.op = "Vec_try_from" /\ obs.arg = "u8"
    /\ Len(Walked(heap, ChainOf(heap, obs.self))) = 3
    /\ ~obs.some /\ obs.err = "IntConversionError"
    /\ obs.ptr = Walked(heap, ChainOf(heap, obs.self))[2]

\* C17: extraction into Option<T> always succeeds: for every node it returns
\* Ok(Some(v)), v the value T extracts, and never an error.
C17_OptionAlwaysSucceeds ==
    obs.op = "Option_try_from" => obs.some /\ obs.opt = "Some"

\* C17, amended: Option<T>::try_from returns Ok(Some(v)) exactly when the
\* extraction of T returns Ok(v), and the error of T otherwise; it never
\* returns Ok(None).
C17_OptionWrapsResult ==
    obs.op = "Option_try_from" =>
        LET r == try_from(obs.arg, heap, from_c_ptr(heap, obs.self))
        IN /\ obs.some = r.ok
           /\ obs.opt = (IF r.ok THEN "Some" ELSE "")
           /\ obs.bits = r.bits /\ obs.iv = r.iv /\ obs.sv = r.sv
           /\ obs.err = r.err /\ obs.key = r.key
           /\ obs.actual = r.actual /\ obs.wanted = r.wanted

\* Option<bool> of a string is the WrongType of bool
C17_Witness ==
    /\ obs.op = "Option_try_from" /\ obs.arg = "bool"
    /\ heap[obs.self].type = "UCL_STRING"
    /\ ~obs.some /\ obs.err = "WrongType" /\ obs.wanted = "UCL_BOOLEAN"

---------------------------------------------------------------------------
(* variable_handlers/: setting the handlers up *)

\* CompoundHandler::register_handler
register_handler(handler) ==
    /\ Len(hooks.handlers) < MaxHandlers
    /\ hooks' = [hooks EXCEPT !.handlers = Append(@, handler)]
    /\ obs' = ObsOk("register_handler")
    /\ UNCHANGED <<heap, nalloc, parser, objects, views, iters, made, conv, cursors>>

\* Parser::set_variables_handler_raw, with what get_fn_ptr_and_data returned
set_variables_handler_raw(handler) ==
    /\ parser.state # "freed"
    /\ hooks' = [hooks EXCEPT !.var_handler = handler,
                              !.owner = IF handler.kind = "extern" THEN "static"
                                        ELSE "alive"]
    /\ obs' = ObsOk("set_variables_handler_raw")
    /\ UNCHANGED <<heap, nalloc, parser, objects, views, iters, made, conv, cursors>>

\* the handler whose closure was installed goes out of scope, or is moved
\* to another place, while the session holds the address of its closure
handler_leaves(how) ==
    /\ parser.state # "freed"
    /\ hooks.owner = "alive"
    /\ hooks' = [hooks EXCEPT !.owner = how]
    /\ obs' = [ObsOk("handler_leaves") EXCEPT !.arg = how]
    /\ UNCHANGED <<heap, nalloc, parser, objects, views, iters, made, conv, cursors>>

\* std::env::set_var
set_var(name, value) ==
    /\ hooks' = [hooks EXCEPT !.environ[name] = value]
    /\ obs' = ObsOk("set_var")
    /\ UNCHANGED <<heap, nalloc, parser, objects, views, iters, made, conv, cursors>>

\* std::env::remove_var
remove_var(name) ==
    /\ hooks' = [hooks EXCEPT !.environ[name] = Unset]
    /\ obs' = ObsOk("remove_var")
    /\ UNCHANGED <<heap, nalloc, parser, objects, views, iters, made, conv, cursors>>

---------------------------------------------------------------------------
(* The handler machine: handlers are registered and installed, the         *)
(* environment is set, and a document with markers is parsed and read      *)

\* key2 = "${ZZZ}", key1 = "${WWW}"
ChunkCompound ==
    [entries |-> <<Entry("key2", "UCL_STRING", 0, "${ZZZ}", <<>>),
                   Entry("key1", "UCL_STRING", 0, "${WWW}", <<>>)>>,
     complete |-> TRUE]
\* good = "${ENV_X}", bad = "${ENV_Y}", also_bad = "${X}"
ChunkEnv ==
    [entries |-> <<Entry("good", "UCL_STRING", 0, "${ENV_X}", <<>>),
                   Entry("bad", "UCL_STRING", 0, "${ENV_Y}", <<>>),
                   Entry("also_bad", "UCL_STRING", 0, "${X}", <<>>)>>,
     complete |-> TRUE]

VarChunks == {ChunkCompound, ChunkEnv, ChunkSingle}

VarKeys == {"key1", "key2", "good", "bad", "also_bad", "key"}

\* the closures of the test, and one more that takes WWW
Handlers ==
    {Closure("WWW", "asd"), Closure("ZZZ", "dsa"), Closure("WWW", "qwe"),
     EnvVariableHandler_default}

EnvValues == {"yes", "no"}

\* the handlers and the environment are set up, then the session is fed one
\* document
NextVars ==
    \/ \E handler \in Handlers : parser.chunks = 0 /\ register_handler(handler)
    \/ \E handler \in {CompoundHandler_default, EnvVariableHandler_default} :
          parser.chunks = 0 /\ set_variables_handler_raw(handler)
    \/ \E name \in EnvNames : \E value \in EnvValues :
          parser.chunks = 0 /\ set_var(name, value)
    \/ \E name \in EnvNames : parser.chunks = 0 /\ remove_var(name)
    \/ \E chunk \in VarChunks :
          parser.chunks = 0
          /\ add_chunk_full(chunk, Priority_default, DEFAULT_DUPLICATE_STRATEGY)
    \/ get_object
    \/ \E h \in 1..MaxObjects : \E k \in VarKeys :
          objects[h] # None /\ call_lookup(objects[h], k)
    \/ \E v \in 1..MaxViews : views[v] # None /\ call_as_string(views[v])

SpecVars == Init /\ [][NextVars]_vars

---------------------------------------------------------------------------
(* Dispatch of the CompoundHandler *)

\* the handlers of the registry that take the name of a call
Takers(d) ==
    {j \in 1..Len(d.handlers) : handle(d.handlers[j], d.environ, d.var).found}

First(S) == CHOOSE j \in S : \A k \in S : j <= k

\* the parsed value of the key of a call is the text the call gave
Parsed(d) ==
    \E n \in NodeIds :
        /\ heap[n].st = "live" /\ heap[n].hk /\ heap[n].key = d.key
        /\ heap[n].type = "UCL_STRING" /\ heap[n].sv = d.out

\* C18: a CompoundHandler tries its handlers in registration order for every
\* marker; the first that returns true ends the dispatch with true and none
\* registered after it is called for that marker; if none returns true, the
\* empty registry included, the dispatch returns false and the marker is
\* left as written in the parsed value, which is not an error.
C18_CompoundDispatch ==
    \A i \in DOMAIN hooks.calls :
        LET d == hooks.calls[i]
        IN d.via.kind = "compound" =>
              /\ IF Takers(d) # {}
                 THEN /\ d.found
                      /\ d.tried = [k \in 1..First(Takers(d)) |-> k]
                      /\ d.replace = handle(d.handlers[First(Takers(d))],
                                            d.environ, d.var).replace
                 ELSE /\ ~d.found
                      /\ d.tried = [k \in 1..Len(d.handlers) |-> k]
                      /\ d.out = "${" \o d.var \o "}"
                      /\ \E l \in DOMAIN parser.log :
                            parser.log[l].key = d.key /\ parser.log[l].ok
              /\ Parsed(d)

\* two registered handlers take the name: only the first is called
C18_Witness ==
    \E i \in DOMAIN hooks.calls :
        LET d == hooks.calls[i]
        IN /\ d.via.kind = "compound"
           /\ Takers(d) = {1, 2}
           /\ d.found /\ d.tried = <<1>> /\ d.out = "asd"
           /\ Parsed(d)

\* a registry of two closures that take two distinct names, asked for one
\* of the two
TwoHandlers(d) ==
    /\ d.via.kind = "compound"
    /\ Len(d.handlers) = 2
    /\ d.handlers[1].kind = "closure" /\ d.handlers[2].kind = "closure"
    /\ d.handlers[1].name # d.handlers[2].name
    /\ d.var \in {d.handlers[1].name, d.handlers[2].name}

\* the handler of the registry that matches the name of a call
MatchOf(d) == IF d.var = d.handlers[1].name THEN 1 ELSE 2

\* C19: with a CompoundHandler of two handlers that each match a distinct
\* marker name, parsing input that uses both markers resolves each marker
\* with the replacement of its matching handler, and no handler is invoked
\* for the other handler's marker.
C19_NoHandlerSeesOtherMarker ==
    \A i \in DOMAIN hooks.calls :
        LET d == hooks.calls[i]
        IN TwoHandlers(d) =>
              /\ d.found /\ d.out = d.handlers[MatchOf(d)].text /\ Parsed(d)
              /\ \A j \in SeqToSet(d.tried) : d.handlers[j].name = d.var

\* C19, amended: each marker is resolved with the replacement of its
\* matching handler; the handler registered second is not invoked for the
\* marker of the first, while the handler registered first is invoked for
\* the marker of the second and declines it.
C19_EachMarkerByItsHandler ==
    \A i \in DOMAIN hooks.calls :
        LET d == hooks.calls[i]
        IN TwoHandlers(d) =>
              /\ d.found /\ d.out = d.handlers[MatchOf(d)].text /\ Parsed(d)
              /\ d.tried = [k \in 1..MatchOf(d) |-> k]

\* key2 = "${ZZZ}" and key1 = "${WWW}" parsed with www registered before zzz
C19_Witness ==
    \E i, j \in DOMAIN hooks.calls :
        /\ TwoHandlers(hooks.calls[i]) /\ TwoHandlers(hooks.calls[j])
        /\ hooks.calls[i].var = "ZZZ" /\ hooks.calls[i].tried = <<1, 2>>
        /\ hooks.calls[i].out = "dsa"
        /\ hooks.calls[j].var = "WWW" /\ hooks.calls[j].tried = <<1>>
        /\ hooks.calls[j].out = "asd"

---------------------------------------------------------------------------
(* The environment handler *)

\* the calls the engine made to an EnvVariableHandler for a name that
\* starts with its prefix
EnvCalls ==
    {i \in DOMAIN hooks.calls :
        /\ hooks.calls[i].via.kind = "env"
        /\ starts_with(hooks.calls[i].var, hooks.calls[i].via.prefix)}

\* the name of a call without the prefix of the handler
Stripped(d) == SubSeq(d.var, Len(d.via.prefix) + 1, Len(d.var))

\* C20: EnvVariableHandler with prefix P (default ENV_), given a marker name
\* that starts with P, strips P from the name and looks up the remainder as
\* the name of the environment variable, substituting the value of that
\* variable when it is set.
C20_EnvStripsPrefix ==
    \A i \in EnvCalls :
        LET d == hooks.calls[i]
        IN /\ d.found = (env_var(d.environ, Stripped(d)) # Unset)
           /\ d.found => d.out = env_var(d.environ, Stripped(d)) /\ Parsed(d)

\* what the handler does: the name is looked up with its prefix, and the
\* text substituted is the value or what a released buffer holds
EnvLooksUpWholeName ==
    \A i \in EnvCalls :
        LET d == hooks.calls[i]
        IN /\ d.found = (env_var(d.environ, d.var) # Unset)
           /\ d.found => d.out \in {env_var(d.environ, d.var), FreedBytes} /\ Parsed(d)

\* ENV_X and X both set to the same value, as in the test of the handler
EnvBothSet ==
    \A i \in EnvCalls :
        LET d == hooks.calls[i]
        IN (d.var = "ENV_X" /\ d.environ["ENV_X"] = "yes" /\ d.environ["X"] = "yes") =>
              d.out = "yes"

\* the parse that made a call succeeded
ParsedOk(d) ==
    \E l \in DOMAIN parser.log : parser.log[l].key = d.key /\ parser.log[l].ok

\* C21: for a marker that lacks the prefix, or whose environment variable
\* (the name the handler looks up) is not set, EnvVariableHandler returns
\* false and writes none of its output parameters, so the marker text stays
\* literal in the parsed string; it never reports an error.
C21_EnvPassThrough ==
    \A i \in DOMAIN hooks.calls :
        LET d == hooks.calls[i]
        IN (d.via.kind = "env"
            /\ (~starts_with(d.var, d.via.prefix) \/ env_var(d.environ, d.var) = Unset)) =>
              /\ ~d.found
              /\ d.wrote = {}
              /\ d.out = "${" \o d.var \o "}"
              /\ Parsed(d)
              /\ ParsedOk(d)

\* ${X} with X set: the name lacks the prefix
C21_Witness ==
    \E i \in DOMAIN hooks.calls :
        LET d == hooks.calls[i]
        IN /\ d.via.kind = "env" /\ d.var = "X" /\ d.environ["X"] = "yes"
           /\ ~d.found /\ d.wrote = {} /\ d.out = "${X}"
           /\ Parsed(d)

\* C28: when EnvVariableHandler returns true, the replacement bytes it hands
\* to the engine, with the need-free flag false, stay allocated and
\* unchanged until the engine has read them: the buffer is not freed when
\* the handler returns.
C28_EnvReplacementAlive ==
    \A i \in DOMAIN hooks.calls :
        LET d == hooks.calls[i]
        IN (d.via.kind = "env" /\ d.found) =>
              /\ ~d.need_free
              /\ ~d.dangling
              /\ d.out = d.replace

\* C29: extracting a Duration from any node returns a value, never a panic:
\* Ok(duration) for a time-kind node, including one whose number of seconds
\* is negative, and Err(WrongType) with wanted type time for a node of any
\* other kind.
C29_DurationNeverPanics ==
    (obs.op = "try_from" /\ obs.arg = "Duration") =>
        /\ obs.err # "panic"
        /\ IF obs.kind = "UCL_TIME"
           THEN obs.some /\ obs.err = "none"
           ELSE ~obs.some /\ obs.err = "WrongType" /\ obs.wanted = "UCL_TIME"

\* the part of C29 that holds: a node of another kind is refused with
\* WrongType, and a time of zero or more seconds is returned
DurationOfOtherKinds ==
    (obs.op = "try_from" /\ obs.arg = "Duration") =>
        IF obs.kind = "UCL_TIME"
        THEN IF heap[obs.self].iv >= 0
             THEN obs.some /\ obs.err = "none" /\ obs.iv = heap[obs.self].iv
             ELSE ~obs.some /\ obs.err = "panic"
        ELSE ~obs.some /\ obs.err = "WrongType" /\ obs.wanted = "UCL_TIME"
                       /\ obs.actual = obs.kind

---------------------------------------------------------------------------
(* The session machine: chunks and files fed to one session, well formed   *)
(* and not, and the root asked for at any moment                           *)

SessionChunks == {ChunkSingle, ChunkOther, ChunkIncomplete}

Files ==
    {[name |-> "good.conf", exists |-> TRUE, chunk |-> ChunkOther],
     [name |-> "broken.conf", exists |-> TRUE, chunk |-> ChunkIncomplete],
     [name |-> "missing.conf", exists |-> FALSE, chunk |-> ChunkOther],
     [name |-> "abc<NUL>d", exists |-> FALSE, chunk |-> ChunkOther]}

NextSession ==
    \/ \E chunk \in SessionChunks :
          add_chunk_full(chunk, Priority_default, DEFAULT_DUPLICATE_STRATEGY)
    \/ \E file \in Files :
          add_file_full(file, Priority_default, DEFAULT_DUPLICATE_STRATEGY)
    \/ get_object
    \/ \E h \in 1..MaxObjects : Object_drop(h)
    \/ Parser_drop

SpecSession == Init /\ [][NextSession]_vars

\* C22: get_object returns Ok(owning root handle) when the engine holds a
\* successfully parsed tree and otherwise returns Err(UclError) as a value;
\* this covers a session whose previous add_chunk_full failed and a session
\* to which no chunk was ever added, and get_object never panics.
C22_GetObjectNeverPanics ==
    obs.op = "get_object" =>
        /\ obs.err # "panic"
        /\ IF parser.state = "parsed"
           THEN obs.some /\ obs.ptr = parser.top
                /\ \E h \in 1..MaxObjects : objects[h] # None /\ objects[h].object = parser.top
           ELSE ~obs.some /\ obs.err = from_code(parser.err_code)

\* the part of C22 that holds: Ok of the root after a good parse, Err of the
\* engine's error when the engine has one, and a panic when it has none
GetObjectOutcomes ==
    obs.op = "get_object" =>
        IF parser.state = "parsed" THEN obs.some /\ obs.ptr = parser.top
        ELSE IF parser.err # "" THEN ~obs.some /\ obs.err = from_code(parser.err_code)
        ELSE ~obs.some /\ obs.err = "panic" /\ parser.state = "init"

\* the step is an add_chunk_full or an add_file_full that reached the engine
IsAdd == parser'.chunks = parser.chunks + 1 /\ obs'.err # "panic"

\* a well-formed chunk would be accepted by the session
TakesChunks(ps, hp, na) ==
    ucl_parser_add_chunk_full(ps, hp, na, ChunkOther, as_c_uint(Priority_default),
                              DEFAULT_DUPLICATE_STRATEGY).result

---------------------------------------------------------------------------
(* The assignment machine: a root handle, the views looked up on it, and   *)
(* the assignment of a view through the handle's DerefMut                  *)

AssignChunks == {ChunkSingle, ChunkArray}

NextAssign ==
    \/ \E chunk \in AssignChunks :
          parser.chunks = 0
          /\ add_chunk_full(chunk, Priority_default, DEFAULT_DUPLICATE_STRATEGY)
    \/ /\ parser.top # NULL => heap[parser.top].ref <= MaxObjects
       /\ get_object
    \/ \E h \in 1..MaxObjects : \E k \in {"key", "array"} :
          objects[h] # None /\ heap[objects[h].object].st = "live"
          /\ call_lookup(objects[h], k)
    \/ \E h \in 1..MaxObjects : \E v \in 1..MaxViews : deref_mut_assign(h, v)
    \/ \E h \in 1..MaxObjects : Object_drop(h)
    \/ \E v \in 1..MaxViews : ObjectRef_drop(v)
    \/ Parser_drop

SpecAssign == Init /\ [][NextAssign]_vars

\* C30: the node an owning Object points to never changes during the
\* handle's lifetime: after any sequence of safe public operations,
\* including assignment of another ObjectRef through the Object's DerefMut,
\* the node decremented when the Object is dropped is the node whose count
\* was incremented when that Object was created.
C30_ObjectNodeFixed ==
    [][/\ \A h \in 1..MaxObjects :
             (objects[h] # None /\ objects'[h] # None) =>
                 as_ptr(objects'[h]) = as_ptr(objects[h])
       /\ obs'.op = "Object_drop" =>
             /\ heap[obs'.ptr].ref > EngineHolds(obs'.ptr)
             /\ heap'[obs'.ptr].st # "corrupt"]_vars

\* the part of C30 that holds: every operation other than the assignment
\* leaves the node of every Object alone
OnlyAssignmentMoves ==
    [][obs'.op # "deref_mut_assign" =>
          \A h \in 1..MaxObjects :
             (objects[h] # None /\ objects'[h] # None) =>
                 as_ptr(objects'[h]) = as_ptr(objects[h])]_vars

---------------------------------------------------------------------------
(* The cursor machine: iterators over the views of one document, started   *)
(* with and without a cursor, stepped and dropped at any moment            *)

NextCursor ==
    \/ \E chunk \in IterChunks :
          parser.chunks = 0
          /\ add_chunk_full(chunk, Priority_default, DEFAULT_DUPLICATE_STRATEGY)
    \/ get_object
    \/ \E self \in Refs : \E k \in {"key", "array"} : call_lookup(self, k)
    \/ \E v \in 1..MaxViews : ObjectRef_drop(v)
    \/ \E v \in 1..MaxViews : Iter_new(v)
    \/ \E v \in 1..MaxViews : Iter_new_oom(v)
    \/ \E h \in 1..MaxObjects : Iter_new_deref(h)
    \/ \E v \in 1..MaxViews : IntoIter_new(v)
    \/ \E v \in 1..MaxViews : IntoIter_new_oom(v)
    \/ \E i \in 1..MaxIters : next(i)
    \/ \E i \in 1..MaxIters : Iter_drop(i)

SpecCursor == Init /\ [][NextCursor]_vars

\* C25: an iterator whose cursor failed to initialise (the engine returned
\* a null cursor) returns None on every next(), exactly like an exhausted
\* iterator, and neither next() nor dropping the iterator panics.
C25_NullCursorHarmless ==
    /\ (obs.op = "next" /\ ~obs.engine) => ~obs.some /\ obs.ub = "no"
    /\ (obs.op = "Iter_drop" /\ ~obs.engine) => obs.ub = "no" /\ obs.err = "none"

\* the part of C25 that holds: every next() of an iterator without a cursor
\* returns None without a call of the engine, and the iterator yields nothing
NullCursorYieldsNone ==
    /\ (obs.op = "next" /\ ~obs.engine) => ~obs.some /\ obs.ub = "no"
    /\ \A i \in 1..MaxIters :
          (iters[i] # NoIter /\ iters[i].inner = "null") =>
              iters[i].out = <<>> /\ ~iters[i].late

\* the iterator of slot i holds a cursor of the engine
HoldsCursor(its, i) == its[i] # NoIter /\ its[i].inner = "cursor"

\* C26: each Iter and each IntoIter frees its engine cursor exactly once, at
\* the moment the iterator is dropped, whether zero, some or all elements
\* were consumed; next() never frees the cursor and no cursor is freed twice
\* or left unfreed.
C26_CursorFreedOnceAtDrop ==
    [][\A i \in 1..MaxIters :
          /\ cursors[i] # "corrupt" /\ cursors'[i] # "corrupt"
          /\ HoldsCursor(iters, i) <=> cursors[i] = "live"
          /\ HoldsCursor(iters', i) <=> cursors'[i] = "live"
          /\ (cursors[i] = "live" /\ cursors'[i] = "free") <=>
                (HoldsCursor(iters, i) /\ iters'[i] = NoIter)
          /\ (HoldsCursor(iters, i) /\ iters'[i] = NoIter) =>
                obs'.op = "Iter_drop" /\ obs'.ub = "no"
          /\ obs'.op = "next" => cursors' = cursors]_vars

\* an iterator over [1,2,3] was dropped after two of the three elements
C26_Witness ==
    /\ obs.op = "Iter_drop" /\ obs.engine /\ obs.arg = "running"
    /\ Len(obs.list) = 2
    /\ heap[obs.ptr].type = "UCL_ARRAY"
    /\ \A i \in 1..MaxIters : iters[i] = NoIter /\ cursors[i] = "free"

\* an iterator was dropped before its first step
DroppedUnused ==
    /\ obs.op = "Iter_drop" /\ obs.engine /\ obs.arg = "running" /\ obs.list = <<>>
    /\ \A i \in 1..MaxIters : cursors[i] = "free"

\* an iterator was dropped after it returned None
DroppedExhausted ==
    /\ obs.op = "Iter_drop" /\ obs.engine /\ obs.arg = "ended" /\ Len(obs.list) = 3
    /\ \A i \in 1..MaxIters : cursors[i] = "free"

---------------------------------------------------------------------------
(* The closure machine: a closure or a plain function is installed, the    *)
(* handler that owns the closure stays, moves or goes, and a document with *)
(* markers is parsed and read                                              *)

\* key = "${WWW}"
ChunkBasic ==
    [entries |-> <<Entry("key", "UCL_STRING", 0, "${WWW}", <<>>)>>, complete |-> TRUE]

Installed ==
    {Closure("WWW", "asd"), Extern("WWW", "asd"), Closure("ZZZ", "dsa"),
     EnvVariableHandler_default, CompoundHandler_default}

NextClosure ==
    \/ \E handler \in Installed : parser.chunks = 0 /\ set_variables_handler_raw(handler)
    \/ \E handler \in {Closure("WWW", "asd")} :
          parser.chunks = 0 /\ register_handler(handler)
    \/ \E how \in {"moved", "dropped"} : parser.chunks = 0 /\ handler_leaves(how)
    \/ \E name \in {"ENV_X"} : parser.chunks = 0 /\ set_var(name, "yes")
    \/ \E chunk \in {ChunkBasic, ChunkEnv} :
          parser.chunks = 0
          /\ add_chunk_full(chunk, Priority_default, DEFAULT_DUPLICATE_STRATEGY)
    \/ get_object
    \/ \E h \in 1..MaxObjects : \E k \in {"key", "good"} :
          objects[h] # None /\ call_lookup(objects[h], k)
    \/ \E v \in 1..MaxViews : views[v] # None /\ call_as_string(views[v])

SpecClosure == Init /\ [][NextClosure]_vars

\* the text the engine puts for ${var} when the plain function of the same
\* body is installed with a null user data
PlainOut(d) ==
    ucl_expand_variable([handlers |-> d.handlers,
                         var_handler |-> Extern(d.via.name, d.via.text),
                         owner |-> "static", environ |-> d.environ, calls |-> <<>>],
                        Entry(d.key, "UCL_STRING", 0, "${" \o d.var \o "}", <<>>),
                        FALSE).out

C27_ClosureAliveWhenCalled ==
    \A i \in DOMAIN hooks.calls :
        hooks.calls[i].via.kind \in {"closure", "env", "compound"} =>
            hooks.calls[i].owner = "alive"

\* the part of C27 that holds: a plain function installed with a null user
\* data has nothing to outlive, and a closure is called only once installed
CalledAsInstalled ==
    \A i \in DOMAIN hooks.calls :
        LET d == hooks.calls[i]
        IN /\ d.via.kind # "none"
           /\ d.via.kind = "extern" <=> d.owner = "static"
           /\ d.owner # "none"

===========================================================================
